---------------------------- MODULE Spec2Model ----------------------------
(***************************************************************************)
(* Model of the opened-ports document of one machine/subnet (state/ports)  *)
(* and of the writers that mutate it through the transaction runner.       *)
(*                                                                         *)
(* One ports document key is modelled.  Every writer owns a Ports handle   *)
(* (the receiver p of OpenPorts/ClosePorts/Remove); a call is split into   *)
(* the steps at which other writers can interleave: the invocation of the  *)
(* operation builder for one attempt, and the submission of the operation  *)
(* list it returned.                                                       *)
(***************************************************************************)
EXTENDS Integers, Sequences, FiniteSets, TLC

VARIABLES
    store,        \* the openedPorts document: exists, Ports, TxnRevno
    modelLife,    \* life of the model document
    machineLife,  \* life of the machine document
    subnetLife,   \* life of the subnet document ("removed": no document)
    unitLife,     \* life of every unit document ("removed": no document)
    handle,       \* per writer: the receiver Ports value (doc.Ports, doc.TxnRevno, areNew)
    call,         \* per writer: the call in flight, or the last call's outcome
    budget,       \* per writer: calls it may still start
    remover,      \* the transaction removing a unit (removePortsForUnitOps)
    subnetID,     \* doc.SubnetID of the document: "" when no subnet is set
    rangeA, rangeB,     \* the port ranges given to Validate and CheckConflicts
    verdict,      \* what Validate and CheckConflicts returned for them
    key,          \* the global key given to extractPortsIDParts
    parts,        \* what extractPortsIDParts returned for it
    tomb,         \* the worker's catacomb: alive, dying or dead, and its error
    loopState,    \* mutaterWorker.loop: at its select, or returned with an error
    watcher,      \* the machine watcher and its Changes channel
    machines,     \* m.machines: the identifiers that have a registry entry
    recon,        \* per identifier: the position of its reconciler
    env,          \* calls and events the environment may still produce
    machineDoc,   \* the machine in state: its life, its status, removed or not
    apiMachine,   \* the machiner API's Machine: cached life, last result
    notify,       \* the NotifyWatcher that Watch returned
    services,     \* the deployer context's installed services
    deployResult, \* what the last call on the deployer context returned
    deployCalls,  \* the calls the deployer's caller may still make
    sharedCtx,    \* sharedServerContext: controllerConfig and features
    configMutex,  \* its configMutex: held by the writer, or by readers
    hub,          \* the central hub: notifications to deliver, messages published
    onChange,     \* the position of onConfigChanged in the notification it handles
    featureReader \* a caller of featureEnabled or maxDebugLogDuration

\* the variables of the pure functions on port ranges and on document keys
rangeVars == <<rangeA, rangeB, verdict>>
keyVars == <<key, parts>>

\* the variables of the machiner API
machinerVars == <<machineDoc, apiMachine, notify>>

\* the variables of the deployer context
deployerVars == <<services, deployResult, deployCalls>>

\* the variables of the API server's shared context
sharedVars == <<sharedCtx, configMutex, hub, onChange, featureReader>>

\* the variables of the instance mutater worker
workerVars == <<tomb, loopState, watcher, machines, recon, env>>

\* the variables that OpenPorts, ClosePorts, Remove and the removal of a
\* unit leave alone
nonPortsVars == <<rangeVars, keyVars, workerVars, machinerVars, deployerVars,
                  sharedVars>>

vars == <<store, modelLife, machineLife, subnetLife, unitLife, handle, call,
          budget, remover, subnetID, nonPortsVars>>

-----------------------------------------------------------------------------
(* Bounds of the model *)

\* writers of Spec
NumWriters == 2
\* calls each writer of Spec may start
MaxCalls == 2
\* calls each writer of SpecRemoval may start
MaxCallsRemoval == 1
\* writers of SpecConverge
NumOpeners == 4

\* characters of the longest key given to extractPortsIDParts
MaxKeyLen == 6

\* jujutxn's bound on the attempts of one Run
nrRetries == 3

Writers == 1..NumWriters
Openers == 1..NumOpeners

Units == {"web/0", "db/0"}

-----------------------------------------------------------------------------
(* PortRange and its pure functions *)

PR(u, f, t, proto) == [UnitName |-> u, FromPort |-> f, ToPort |-> t, Protocol |-> proto]

\* strings.ToLower on the protocol names the model uses
ToLower(s) ==
    CASE s = "TCP" -> "tcp"
      [] s = "UDP" -> "udp"
      [] s = "ICMP" -> "icmp"
      [] OTHER -> s

\* names.IsValidUnit: <application>/<number>
IsValidUnit(u) == u \in {"web/0", "db/0", "web/1"}

\* Validate with the lower bound of the ports off by one
ValidateAcceptsPortZero(p) ==
    LET proto == ToLower(p.Protocol) IN
    IF proto # "tcp" /\ proto # "udp" /\ proto # "icmp" THEN "ErrInvalidProtocol"
    ELSE IF ~IsValidUnit(p.UnitName) THEN "ErrInvalidUnit"
    ELSE IF proto = "icmp" THEN
        IF p.FromPort = p.ToPort /\ p.FromPort = -1 THEN "nil" ELSE "ErrIcmpPorts"
    ELSE IF p.FromPort > p.ToPort THEN "ErrInvalidRange"
    ELSE IF p.FromPort < 0 \/ p.FromPort > 65535 \/ p.ToPort < 0 \/ p.ToPort > 65535
         THEN "ErrBounds"
    ELSE "nil"

\* PortRange.Validate: "nil" or the error
Validate(p) ==
    LET proto == ToLower(p.Protocol) IN
    IF proto # "tcp" /\ proto # "udp" /\ proto # "icmp" THEN "ErrInvalidProtocol"
    ELSE IF ~IsValidUnit(p.UnitName) THEN "ErrInvalidUnit"
    ELSE IF proto = "icmp" THEN
        IF p.FromPort = p.ToPort /\ p.FromPort = -1 THEN "nil" ELSE "ErrIcmpPorts"
    ELSE IF p.FromPort > p.ToPort THEN "ErrInvalidRange"
    ELSE IF p.FromPort <= 0 \/ p.FromPort > 65535 \/ p.ToPort <= 0 \/ p.ToPort > 65535
         THEN "ErrBounds"
    ELSE "nil"

\* CheckConflicts with half of the overlap test
CheckConflictsOneSidedOverlap(prA, prB) ==
    IF Validate(prA) # "nil" THEN Validate(prA)
    ELSE IF Validate(prB) # "nil" THEN Validate(prB)
    ELSE IF prA = prB THEN "nil"
    ELSE IF prA.Protocol # prB.Protocol THEN "nil"
    ELSE IF prA.ToPort >= prB.FromPort THEN "ErrConflict"
    ELSE "nil"

\* CheckConflicts with the exact-match test leaving out the unit name
CheckConflictsIgnoresUnit(prA, prB) ==
    IF Validate(prA) # "nil" THEN Validate(prA)
    ELSE IF Validate(prB) # "nil" THEN Validate(prB)
    ELSE IF [prA EXCEPT !.UnitName = ""] = [prB EXCEPT !.UnitName = ""] THEN "nil"
    ELSE IF prA.Protocol # prB.Protocol THEN "nil"
    ELSE IF prA.ToPort >= prB.FromPort /\ prB.ToPort >= prA.FromPort THEN "ErrConflict"
    ELSE "nil"

\* PortRange.CheckConflicts: "nil", a validation error, or "ErrConflict"
CheckConflicts(prA, prB) ==
    IF Validate(prA) # "nil" THEN Validate(prA)
    ELSE IF Validate(prB) # "nil" THEN Validate(prB)
    ELSE IF prA = prB THEN "nil"
    ELSE IF prA.Protocol # prB.Protocol THEN "nil"
    ELSE IF prA.ToPort >= prB.FromPort /\ prB.ToPort >= prA.FromPort THEN "ErrConflict"
    ELSE "nil"

-----------------------------------------------------------------------------
(* Sequence helpers *)

Range(s) == {s[i] : i \in 1..Len(s)}

Count(s, x) == Cardinality({i \in 1..Len(s) : s[i] = x})

\* $addToSet: append unless already an element
AddToSet(s, x) == IF x \in Range(s) THEN s ELSE Append(s, x)


-----------------------------------------------------------------------------
(* Transaction operations (txn.Op) and the store's evaluation of them *)

NoRevno == 0 - 1

Op(c, id, assert, revno, change, arg) ==
    [C |-> c, Id |-> id, Assertion |-> assert, Revno |-> revno, Change |-> change, Arg |-> arg]

\* assertModelActiveOp: the model document is alive
assertModelActiveOp == Op("models", "model", "isAliveDoc", NoRevno, "none", <<>>)

\* notDeadDoc on the machine, and on the subnet when the document has one
assertMachineNotDeadAndSubnetNotDeadWhenSetOps ==
    <<Op("machines", "machine", "notDeadDoc", NoRevno, "none", <<>>)>>
    \o (IF subnetID # ""
        THEN <<Op("subnets", subnetID, "notDeadDoc", NoRevno, "none", <<>>)>>
        ELSE <<>>)

\* the assertion on the openedPorts document: txn.DocMissing, txn.DocExists or
\* bson.D{{"txn-revno", n}}
OpenedPortsOp(assert, revno, change, arg) ==
    Op("openedPorts", "ports", assert, revno, change, arg)

\* addPortsDocOpsFunc: insert the document with the given ranges
addPortsDocOps(portsAssert, ports) ==
    assertMachineNotDeadAndSubnetNotDeadWhenSetOps
    \o <<OpenedPortsOp(portsAssert.assert, portsAssert.revno, "Insert", ports)>>

\* updatePortsDocOps with $set of the one range in place of $addToSet
updatePortsDocOpsOverwrites(portsAssert, portRange) ==
    assertMachineNotDeadAndSubnetNotDeadWhenSetOps
    \o <<Op("units", portRange.UnitName, "notDeadDoc", NoRevno, "none", <<>>),
         OpenedPortsOp(portsAssert.assert, portsAssert.revno, "set", <<portRange>>)>>

\* updatePortsDocOpsFunc: $addToSet one range, the owning unit not dead
updatePortsDocOps(portsAssert, portRange) ==
    assertMachineNotDeadAndSubnetNotDeadWhenSetOps
    \o <<Op("units", portRange.UnitName, "notDeadDoc", NoRevno, "none", <<>>),
         OpenedPortsOp(portsAssert.assert, portsAssert.revno, "addToSet", <<portRange>>)>>

\* setPortsDocOpsFunc: $set the whole range list
setPortsDocOps(portsAssert, ports) ==
    assertMachineNotDeadAndSubnetNotDeadWhenSetOps
    \o <<OpenedPortsOp(portsAssert.assert, portsAssert.revno, "set", ports)>>

\* Ports.removeOps: remove the document, asserting only that it exists
removeOps == <<OpenedPortsOp("DocExists", NoRevno, "Remove", <<>>)>>

DocMissing == [assert |-> "DocMissing", revno |-> NoRevno]
TxnRevnoIs(n) == [assert |-> "txn-revno", revno |-> n]

NotDead(life) == life \in {"alive", "dying"}

\* does the assertion of one operation hold in the current state of the store
OpHolds(op) ==
    CASE op.C = "models" -> modelLife = "alive"
      [] op.C = "machines" -> NotDead(machineLife)
      [] op.C = "subnets" -> NotDead(subnetLife)
      [] op.C = "units" -> NotDead(unitLife[op.Id])
      [] op.C = "openedPorts" ->
            CASE op.Assertion = "DocMissing" -> ~store.exists
              [] op.Assertion = "DocExists" -> store.exists
              [] op.Assertion = "txn-revno" -> store.exists /\ store.TxnRevno = op.Revno
              [] OTHER -> TRUE

OpsHold(ops) == \A i \in 1..Len(ops) : OpHolds(ops[i])

\* the openedPorts document after one applied operation; every applied change
\* advances txn-revno, which the transaction layer keeps across a removal
ApplyOp(doc, op) ==
    CASE op.Change = "Insert" ->
            [exists |-> TRUE, Ports |-> op.Arg, TxnRevno |-> doc.TxnRevno + 1]
      [] op.Change = "addToSet" ->
            [doc EXCEPT !.Ports = AddToSet(doc.Ports, op.Arg[1]),
                        !.TxnRevno = doc.TxnRevno + 1]
      [] op.Change = "set" ->
            [doc EXCEPT !.Ports = op.Arg, !.TxnRevno = doc.TxnRevno + 1]
      [] op.Change = "Remove" ->
            [exists |-> FALSE, Ports |-> <<>>, TxnRevno |-> doc.TxnRevno + 1]
      [] OTHER -> doc

RECURSIVE ApplyOps(_, _)
ApplyOps(doc, ops) ==
    IF ops = <<>> THEN doc ELSE ApplyOps(ApplyOp(doc, Head(ops)), Tail(ops))

-----------------------------------------------------------------------------
(* The Ports value and the operation builders of OpenPorts, ClosePorts, Remove *)

PortsVal(ports, revno, areNew) == [Ports |-> ports, TxnRevno |-> revno, areNew |-> areNew]

\* getOrCreatePorts: the stored document, or a new one marked areNew
getOrCreatePorts ==
    IF store.exists THEN PortsVal(store.Ports, store.TxnRevno, FALSE)
    ELSE PortsVal(<<>>, 0, TRUE)

\* checkModelActive: "nil" unless the model is no longer alive
checkModelActive == IF modelLife = "alive" THEN "nil" ELSE "ErrModelNotActive"

\* Ports.verifySubnetAliveWhenSet
verifySubnetAliveWhenSet ==
    IF subnetID = "" THEN "nil"
    ELSE IF subnetLife = "removed" THEN "ErrNotFound"
    ELSE IF subnetLife # "alive" THEN "ErrSubnetNotAlive"
    ELSE "nil"

\* Ports.Refresh on a Ports value: the error, and the value afterwards
\* (a failed read leaves the value as it was)
Refresh(ports, readErr) ==
    IF readErr THEN [err |-> "ErrStoreRead", ports |-> ports]
    ELSE IF ~store.exists THEN [err |-> "ErrNotFound", ports |-> ports]
    ELSE [err |-> "nil",
          ports |-> [ports EXCEPT !.Ports = store.Ports, !.TxnRevno = store.TxnRevno]]

\* what one invocation of a builder leaves: its error and operations, the
\* call's private Ports value, newPorts, and the value it left in the named
\* result err of the method, which the closure assigns to
Built(err, ops, ports, newPorts, captured) ==
    [err |-> err, ops |-> ops, ports |-> ports, newPorts |-> newPorts,
     captured |-> captured]

\* indexes of the existing ranges at which the loop of OpenPorts returns
OpenStops(existing, portRange) ==
    {i \in 1..Len(existing) :
        CheckConflicts(existing[i], portRange) # "nil" \/ existing[i] = portRange}

Min(S) == CHOOSE x \in S : \A y \in S : x <= y

\* OpenPorts, the loop "Check for conflicts with existing ports": the error
\* it returns, or "nil" when it runs to its end.  It ranges over the
\* receiver's p.doc.Ports.
OpenCheckExisting(p, ports, portRange) ==
    LET stops == OpenStops(p.Ports, portRange) IN
    IF stops = {} THEN "nil"
    ELSE LET e == p.Ports[Min(stops)] IN
         IF CheckConflicts(e, portRange) # "nil" THEN CheckConflicts(e, portRange)
         ELSE "ErrNoOperations"

\* OpenPorts, the operations of one attempt once the checks passed
OpenOps(ports, portRange) ==
    <<assertModelActiveOp>>
    \o (IF ports.areNew
        THEN addPortsDocOps(DocMissing, <<portRange>>)
        ELSE updatePortsDocOps(TxnRevnoIs(ports.TxnRevno), portRange))

\* OpenRefreshed with the refreshed document dropped: the private value keeps
\* the revision it had
OpenRefreshedKeepsOldDoc(ports, r) ==
    IF r.err = "ErrNotFound" THEN [ports EXCEPT !.areNew = TRUE]
    ELSE IF r.err = "nil" THEN [ports EXCEPT !.areNew = FALSE]
    ELSE ports

\* OpenPorts, the state of the call's private Ports value after the attempt>0
\* block (Refresh and the areNew adjustment)
OpenRefreshed(ports, r) ==
    IF r.err = "ErrNotFound" THEN [r.ports EXCEPT !.areNew = TRUE]
    ELSE IF r.err = "nil" THEN [r.ports EXCEPT !.areNew = FALSE]
    ELSE r.ports

\* OpenBuildTxn without the check of the model on a retry: the retry goes on
\* to build its operations under a model that is not active
OpenBuildTxnSkipsModelCheck(p, ports, portRange, attempt, readErr, captured) ==
    LET r == Refresh(ports, readErr)
        captured1 == IF attempt > 0 THEN r.err ELSE captured
        ports1 == IF attempt > 0 THEN OpenRefreshed(ports, r) ELSE ports
        exist == OpenCheckExisting(p, ports1, portRange)
        ports2 == IF ports1.areNew THEN [ports1 EXCEPT !.Ports = <<portRange>>] ELSE ports1
    IN
    IF attempt > 0 /\ verifySubnetAliveWhenSet # "nil"
         THEN Built(verifySubnetAliveWhenSet, <<>>, ports, <<>>, captured)
    ELSE IF attempt > 0 /\ r.err \notin {"nil", "ErrNotFound"}
         THEN Built(r.err, <<>>, ports1, <<>>, captured1)
    ELSE IF exist # "nil" THEN Built(exist, <<>>, ports1, <<>>, captured1)
    ELSE Built("nil", OpenOps(ports1, portRange), ports2, <<>>, captured1)

\* OpenPorts buildTxn(attempt)
OpenBuildTxn(p, ports, portRange, attempt, readErr, captured) ==
    LET r == Refresh(ports, readErr)
        \* "err = ports.Refresh()" assigns the method's named result
        captured1 == IF attempt > 0 THEN r.err ELSE captured
        ports1 == IF attempt > 0 THEN OpenRefreshed(ports, r) ELSE ports
        exist == OpenCheckExisting(p, ports1, portRange)
        \* addPortsDocOps sets pDoc.Ports of the private value
        ports2 == IF ports1.areNew THEN [ports1 EXCEPT !.Ports = <<portRange>>] ELSE ports1
    IN
    IF attempt > 0 /\ checkModelActive # "nil"
         THEN Built(checkModelActive, <<>>, ports, <<>>, captured)
    ELSE IF attempt > 0 /\ verifySubnetAliveWhenSet # "nil"
         THEN Built(verifySubnetAliveWhenSet, <<>>, ports, <<>>, captured)
    ELSE IF attempt > 0 /\ r.err \notin {"nil", "ErrNotFound"}
         THEN Built(r.err, <<>>, ports1, <<>>, captured1)
    ELSE IF exist # "nil" THEN Built(exist, <<>>, ports1, <<>>, captured1)
    ELSE Built("nil", OpenOps(ports1, portRange), ports2, <<>>, captured1)

\* OpenReturn with Run's error kept apart from the named result, so that
\* what the closure left in err is returned
OpenReturnLeaksErr(p, portRange, err, captured) ==
    IF err # "nil" THEN [err |-> err, p |-> p]
    ELSE [err |-> captured,
          p |-> [p EXCEPT !.areNew = FALSE, !.Ports = Append(p.Ports, portRange)]]

\* OpenPorts after "err = Run(buildTxn)": the error of the call and the
\* receiver; the assignment overwrites what the closure left in err
OpenReturn(p, portRange, err, captured) ==
    IF err # "nil" THEN [err |-> err, p |-> p]
    ELSE [err |-> "nil",
          p |-> [p EXCEPT !.areNew = FALSE, !.Ports = Append(p.Ports, portRange)]]

\* CloseStops with the comparison of the unit names inverted
CloseStopsOtherUnit(existing, portRange) ==
    {i \in 1..Len(existing) :
        /\ existing[i] # portRange
        /\ existing[i].UnitName # portRange.UnitName
        /\ CheckConflicts(existing[i], portRange) # "nil"}

\* CloseStops without the comparison of the unit names: a conflict with
\* any range of the list is returned
CloseStopsAnyUnit(existing, portRange) ==
    {i \in 1..Len(existing) :
        /\ existing[i] # portRange
        /\ CheckConflicts(existing[i], portRange) # "nil"}

\* ClosePorts, the loop over ports.doc.Ports: where it returns a conflict
CloseStops(existing, portRange) ==
    {i \in 1..Len(existing) :
        /\ existing[i] # portRange
        /\ existing[i].UnitName = portRange.UnitName
        /\ CheckConflicts(existing[i], portRange) # "nil"}

\* ClosePorts, newPorts when the loop runs to its end
CloseKeep(existing, portRange) == SelectSeq(existing, LAMBDA e : e # portRange)

\* CloseOps without the branch that removes the document
CloseOpsAlwaysSet(ports, newPorts) ==
    setPortsDocOps(TxnRevnoIs(ports.TxnRevno), newPorts)

\* ClosePorts, the operations once the loop found the range
CloseOps(ports, newPorts) ==
    IF Len(newPorts) = 0 THEN removeOps
    ELSE setPortsDocOps(TxnRevnoIs(ports.TxnRevno), newPorts)

\* ClosePorts, what its loop leaves in the named result err: the result of
\* CheckConflicts for the last range it compared
CloseLoopErr(existing, portRange, before) ==
    IF Len(CloseKeep(existing, portRange)) = 0 THEN before
    ELSE LET others == CloseKeep(existing, portRange) IN
         CheckConflicts(others[Len(others)], portRange)

\* CloseBuildTxn with the not-found error of Refresh returned like any other
\* error of the read
CloseBuildTxnAbsenceIsError(p, ports, newPorts, portRange, attempt, readErr, captured) ==
    LET r == Refresh(ports, readErr)
        ports1 == IF attempt > 0 THEN r.ports ELSE ports
        captured1 == IF attempt > 0 THEN r.err ELSE captured
        stops == CloseStops(ports1.Ports, portRange)
        found == portRange \in Range(ports1.Ports)
        keep == CloseKeep(ports1.Ports, portRange)
        captured2 == CloseLoopErr(ports1.Ports, portRange, captured1)
    IN
    IF attempt > 0 /\ verifySubnetAliveWhenSet # "nil"
         THEN Built(verifySubnetAliveWhenSet, <<>>, ports, newPorts, captured)
    ELSE IF attempt > 0 /\ r.err # "nil"
         THEN Built(r.err, <<>>, ports1, newPorts, captured1)
    ELSE IF stops # {}
         THEN Built(CheckConflicts(ports1.Ports[Min(stops)], portRange), <<>>, ports1,
                    CloseKeep(SubSeq(ports1.Ports, 1, Min(stops) - 1), portRange),
                    CheckConflicts(ports1.Ports[Min(stops)], portRange))
    ELSE IF ~found THEN Built("ErrNoOperations", <<>>, ports1, keep, captured2)
    ELSE Built("nil", CloseOps(ports1, keep), ports1, keep, captured2)

\* ClosePorts buildTxn(attempt); newPorts is the variable the closure shares
\* with ClosePorts
CloseBuildTxn(p, ports, newPorts, portRange, attempt, readErr, captured) ==
    LET r == Refresh(ports, readErr)
        ports1 == IF attempt > 0 THEN r.ports ELSE ports
        captured1 == IF attempt > 0 THEN r.err ELSE captured
        stops == CloseStops(ports1.Ports, portRange)
        found == portRange \in Range(ports1.Ports)
        keep == CloseKeep(ports1.Ports, portRange)
        captured2 == CloseLoopErr(ports1.Ports, portRange, captured1)
    IN
    IF attempt > 0 /\ verifySubnetAliveWhenSet # "nil"
         THEN Built(verifySubnetAliveWhenSet, <<>>, ports, newPorts, captured)
    ELSE IF attempt > 0 /\ r.err = "ErrNotFound"
         THEN Built("ErrNoOperations", <<>>, ports1, newPorts, captured1)
    ELSE IF attempt > 0 /\ r.err # "nil"
         THEN Built(r.err, <<>>, ports1, newPorts, captured1)
    ELSE IF stops # {}
         THEN Built(CheckConflicts(ports1.Ports[Min(stops)], portRange), <<>>, ports1,
                    CloseKeep(SubSeq(ports1.Ports, 1, Min(stops) - 1), portRange),
                    CheckConflicts(ports1.Ports[Min(stops)], portRange))
    ELSE IF ~found THEN Built("ErrNoOperations", <<>>, ports1, keep, captured2)
    ELSE Built("nil", CloseOps(ports1, keep), ports1, keep, captured2)

\* CloseReturn with the assignment of newPorts made before the error of Run
\* is looked at
CloseReturnAssignsOnError(p, newPorts, err, captured) ==
    [err |-> err, p |-> [p EXCEPT !.Ports = newPorts]]

\* CloseReturn without the assignment of newPorts to the receiver
CloseReturnKeepsList(p, newPorts, err, captured) == [err |-> err, p |-> p]

\* ClosePorts after "err = Run(buildTxn)"
CloseReturn(p, newPorts, err, captured) ==
    IF err # "nil" THEN [err |-> err, p |-> p]
    ELSE [err |-> "nil", p |-> [p EXCEPT !.Ports = newPorts]]

\* Ports.Remove buildTxn(attempt)
RemoveBuildTxn(ports, attempt, readErr) ==
    LET r == Refresh(ports, readErr)
        ports1 == IF attempt > 0 THEN r.ports ELSE ports
    IN
    IF attempt > 0 /\ r.err = "ErrNotFound"
         THEN Built("ErrNoOperations", <<>>, ports1, <<>>, "nil")
    ELSE IF attempt > 0 /\ r.err # "nil" THEN Built(r.err, <<>>, ports1, <<>>, "nil")
    ELSE Built("nil", removeOps, ports1, <<>>, "nil")

\* Ports.PortsForUnit: the ranges of the unit, in the order of the list
PortsForUnit(ports, unitName) == SelectSeq(ports, LAMBDA e : e.UnitName = unitName)

-----------------------------------------------------------------------------
(* removePortsForUnitOps *)

RawKey(pr) == [FromPort |-> pr.FromPort, ToPort |-> pr.ToPort, Protocol |-> pr.Protocol]

\* Ports.AllPortRanges: a map from network.PortRange to the unit name; a
\* later element of doc.Ports overwrites an earlier one with the same key
AllPortRanges(ports) ==
    [k \in {RawKey(ports[i]) : i \in 1..Len(ports)} |->
        LET last == CHOOSE i \in 1..Len(ports) :
                       /\ RawKey(ports[i]) = k
                       /\ \A j \in 1..Len(ports) : RawKey(ports[j]) = k => j <= i
        IN ports[last].UnitName]

\* the ranges removePortsForUnitOps keeps: those of the other units
KeepPorts(ports, unit) ==
    LET all == AllPortRanges(ports) IN
    {PR(all[k], k.FromPort, k.ToPort, k.Protocol) : k \in {x \in DOMAIN all : all[x] # unit}}

\* the orders in which iterating a map can produce the elements of S
Perms(S) ==
    {s \in [1..Cardinality(S) -> S] : \A i, j \in 1..Cardinality(S) : s[i] = s[j] => i = j}

\* removePortsForUnitOps without the branch that removes the document
removePortsForUnitOpsAlwaysSet(unit, keep) ==
    IF ~store.exists THEN <<>>
    ELSE setPortsDocOps(TxnRevnoIs(store.TxnRevno), keep)

\* removePortsForUnitOps for the one ports document of the machine, with the
\* kept ranges in the order keep
removePortsForUnitOps(unit, keep) ==
    IF ~store.exists THEN <<>>
    ELSE IF Len(keep) > 0 THEN setPortsDocOps(TxnRevnoIs(store.TxnRevno), keep)
    ELSE removeOps

-----------------------------------------------------------------------------
(* The transaction runner (Run) and the calls of the writers *)

IdleCall ==
    [op |-> "none", portRange |-> PR("", 0, 0, ""), pc |-> "idle", attempt |-> 0,
     ports |-> PortsVal(<<>>, 0, FALSE), newPorts |-> <<>>, ops |-> <<>>,
     result |-> "none", submitted |-> 0, applied |-> 0, attempts |-> <<>>,
     dup |-> FALSE, clash |-> FALSE, err |-> "nil"]

\* the ranges the writers of Spec pass to OpenPorts and ClosePorts
OpRanges ==
    {PR("web/0", 80, 80, "tcp"), PR("web/0", 8080, 8080, "tcp"), PR("db/0", 80, 90, "tcp")}

\* a range ClosePorts is called with that was never opened in that shape
CloseOnlyRanges == {PR("web/0", 80, 90, "tcp")}

\* a range that fails Validate
BadRanges == {PR("web/0", 0, 80, "tcp")}

\* two ranges overlap in their bounds
Overlap(a, b) == a.ToPort >= b.FromPort /\ b.ToPort >= a.FromPort

\* recorded when a call starts: the range is in the receiver's range list
InSnapshot(p, portRange) == portRange \in Range(p.Ports)

\* recorded when a call starts: the stored document holds a range of another
\* unit, with the same protocol and overlapping bounds, that the receiver's
\* range list reflects
ClashesWithStored(p, portRange) ==
    \E e \in Range(p.Ports) \cap Range(store.Ports) :
        /\ e.UnitName # portRange.UnitName
        /\ e.Protocol = portRange.Protocol
        /\ Overlap(e, portRange)

\* the builder of the call in flight, for the attempt it is at
BuildTxn(w, readErr) ==
    LET c == call[w] IN
    CASE c.op = "open" ->
            OpenBuildTxn(handle[w], c.ports, c.portRange, c.attempt, readErr, c.err)
      [] c.op = "close" ->
            CloseBuildTxn(handle[w], c.ports, c.newPorts, c.portRange, c.attempt,
                          readErr, c.err)
      [] c.op = "remove" -> RemoveBuildTxn(c.ports, c.attempt, readErr)

\* what the method does with the error Run returned
Return(w, c, err) ==
    CASE c.op = "open" -> OpenReturn(handle[w], c.portRange, err, c.err)
      [] c.op = "close" -> CloseReturn(handle[w], c.newPorts, err, c.err)
      [] c.op = "remove" -> [err |-> err, p |-> handle[w]]

\* Run: what follows the builder's return ("return" with the error, or "txn")
RunAfterBuild(b) ==
    IF b.err = "ErrNoOperations" THEN [next |-> "return", err |-> "nil"]
    ELSE IF b.err # "nil" THEN [next |-> "return", err |-> b.err]
    ELSE [next |-> "txn", err |-> "nil"]

\* RunAfterAbort without the bound on the attempts
RunAfterAbortUnbounded(attempt) == [next |-> "build", err |-> "nil"]

\* Run: what follows an aborted transaction of the given attempt
RunAfterAbort(attempt) ==
    IF attempt + 1 < nrRetries THEN [next |-> "build", err |-> "nil"]
    ELSE [next |-> "return", err |-> "ErrExcessiveContention"]

\* the call of w returns: Run's error goes through the method's epilogue
Finish(w, c, err) ==
    LET ret == Return(w, c, err) IN
    /\ handle' = [handle EXCEPT ![w] = ret.p]
    /\ call' = [call EXCEPT ![w] = [c EXCEPT !.pc = "idle", !.result = ret.err,
                                              !.ports = IdleCall.ports,
                                              !.newPorts = <<>>, !.ops = <<>>,
                                              !.err = "nil"]]

\* getOrCreatePorts by an idle writer
GetPorts(w) ==
    /\ call[w].pc = "idle"
    /\ handle' = [handle EXCEPT ![w] = getOrCreatePorts]
    /\ UNCHANGED <<store, modelLife, machineLife, subnetLife, unitLife, call, budget,
                   remover, subnetID, nonPortsVars>>

\* StartCall without the early return on a range that fails Validate
StartCallSkipsValidate(w, op, portRange) ==
    /\ call[w].pc = "idle"
    /\ budget[w] > 0
    /\ budget' = [budget EXCEPT ![w] = @ - 1]
    /\ call' = [call EXCEPT ![w] = [IdleCall EXCEPT !.op = op, !.portRange = portRange,
                                       !.dup = InSnapshot(handle[w], portRange),
                                       !.clash = ClashesWithStored(handle[w], portRange),
                                       !.pc = "build", !.result = "running",
                                       !.ports = handle[w]]]
    /\ UNCHANGED <<store, modelLife, machineLife, subnetLife, unitLife, handle,
                   remover, subnetID, nonPortsVars>>

\* the head of OpenPorts and ClosePorts: Validate, then the private copy
StartCall(w, op, portRange) ==
    /\ call[w].pc = "idle"
    /\ budget[w] > 0
    /\ budget' = [budget EXCEPT ![w] = @ - 1]
    /\ LET c == [IdleCall EXCEPT !.op = op, !.portRange = portRange,
                                 !.dup = InSnapshot(handle[w], portRange),
                                 !.clash = ClashesWithStored(handle[w], portRange)] IN
       IF op # "remove" /\ Validate(portRange) # "nil"
       THEN call' = [call EXCEPT ![w] = [c EXCEPT !.result = Validate(portRange)]]
       ELSE call' = [call EXCEPT ![w] = [c EXCEPT !.pc = "build", !.result = "running",
                                                  !.ports = handle[w]]]
    /\ UNCHANGED <<store, modelLife, machineLife, subnetLife, unitLife, handle,
                   remover, subnetID, nonPortsVars>>

OpenPorts(w) == \E r \in OpRanges \cup BadRanges : StartCall(w, "open", r)

ClosePorts(w) == \E r \in OpRanges \cup CloseOnlyRanges \cup BadRanges : StartCall(w, "close", r)

Remove(w) == StartCall(w, "remove", PR("", 0, 0, ""))

\* Run invokes the builder for the current attempt
Build(w, readErr) ==
    /\ call[w].pc = "build"
    /\ LET b == BuildTxn(w, readErr)
           after == RunAfterBuild(b)
           c == [call[w] EXCEPT !.ports = b.ports, !.newPorts = b.newPorts,
                                !.err = b.captured,
                                !.attempts = Append(@, call[w].attempt)]
       IN IF after.next = "return"
          THEN Finish(w, c, after.err)
          ELSE /\ call' = [call EXCEPT ![w] = [c EXCEPT !.pc = "txn", !.ops = b.ops]]
               /\ UNCHANGED handle
    /\ UNCHANGED <<store, modelLife, machineLife, subnetLife, unitLife, budget,
                   remover, subnetID, nonPortsVars>>

RunBuild(w) == Build(w, FALSE)

\* the same with the read of the document failing for a reason other than
\* its absence
RunBuildReadFails(w) ==
    /\ call[w].attempt > 0
    /\ Build(w, TRUE)

\* Run submits the operations: applied atomically when every assertion
\* holds, aborted otherwise
RunTransaction(w) ==
    /\ call[w].pc = "txn"
    /\ LET c == [call[w] EXCEPT !.submitted = @ + 1] IN
       IF OpsHold(c.ops)
       THEN /\ store' = ApplyOps(store, c.ops)
            /\ Finish(w, [c EXCEPT !.applied = @ + 1], "nil")
       ELSE /\ UNCHANGED store
            /\ LET after == RunAfterAbort(c.attempt) IN
               IF after.next = "return"
               THEN Finish(w, c, after.err)
               ELSE /\ call' = [call EXCEPT ![w] = [c EXCEPT !.pc = "build",
                                                             !.attempt = @ + 1]]
                    /\ UNCHANGED handle
    /\ UNCHANGED <<modelLife, machineLife, subnetLife, unitLife, budget, remover, subnetID, nonPortsVars>>

-----------------------------------------------------------------------------
(* The removal of a dead unit, which removes the unit's ports *)

\* Unit.EnsureDead
EnsureDead(u) ==
    /\ unitLife[u] \in {"alive", "dying"}
    /\ unitLife' = [unitLife EXCEPT ![u] = "dead"]
    /\ UNCHANGED <<store, modelLife, machineLife, subnetLife, handle, call, budget,
                   remover, subnetID, nonPortsVars>>

IdleRemover == [pc |-> "idle", unit |-> "", ops |-> <<>>]

\* the removal of a dead unit builds its operations from the ports it reads
RemoveUnitBuild(u) ==
    /\ remover.pc = "idle"
    /\ unitLife[u] = "dead"
    /\ \E keep \in Perms(KeepPorts(store.Ports, u)) :
          remover' = [pc |-> "txn", unit |-> u, ops |-> removePortsForUnitOps(u, keep)]
    /\ UNCHANGED <<store, modelLife, machineLife, subnetLife, unitLife, handle, call,
                   budget, subnetID, nonPortsVars>>

\* and submits them; aborted, the removal is built again
RemoveUnitTxn ==
    /\ remover.pc = "txn"
    /\ IF OpsHold(remover.ops)
       THEN /\ store' = ApplyOps(store, remover.ops)
            /\ unitLife' = [unitLife EXCEPT ![remover.unit] = "removed"]
       ELSE UNCHANGED <<store, unitLife>>
    /\ remover' = IdleRemover
    /\ UNCHANGED <<modelLife, machineLife, subnetLife, handle, call, budget, subnetID, nonPortsVars>>

-----------------------------------------------------------------------------
(* Spec: the writers of one ports document, OpenPorts and ClosePorts *)

EmptyStore == [exists |-> FALSE, Ports |-> <<>>, TxnRevno |-> 0]

\* no controller config
NoConfig == [features |-> <<>>, maxDebugLog |-> 0]

\* Validate, CheckConflicts and extractPortsIDParts not called
NoRange == PR("", 0, 0, "")
NoVerdict == [a |-> "none", b |-> "none", ab |-> "none", ba |-> "none"]
NoParts == [err |-> "none", machine |-> <<>>, subnet |-> <<>>]

\* newWorker not called: no catacomb, no loop, no watcher, no reconciler
WorkerIdle ==
    /\ tomb = [state |-> "none", reason |-> "nil"]
    /\ loopState = [pc |-> "none", err |-> "nil"]
    /\ watcher = [state |-> "none", pending |-> <<>>, err |-> "nil"]
    /\ machines = {}
    /\ recon = <<>>
    /\ env = [batches |-> 0, kills |-> 0, failures |-> 0, stopCalled |-> FALSE,
              waited |-> "none", firstErr |-> "nil"]

\* no machine, no machiner API client, no watcher
MachinerIdle ==
    /\ machineDoc = [exists |-> FALSE, life |-> "none", status |-> "none"]
    /\ apiMachine = [life |-> "none", op |-> "none", err |-> "none", calls |-> 0,
                     ensured |-> 0]
    /\ notify = [watching |-> FALSE, pending |-> FALSE, delivered |-> 0, changes |-> 0]

\* no deployer context
DeployerIdle ==
    /\ services = {}
    /\ deployResult = [op |-> "none", err |-> "none", units |-> <<>>]
    /\ deployCalls = [left |-> 0, live |-> {}, recalled |-> 0]

\* no shared context
SharedIdle ==
    /\ sharedCtx = [controllerConfig |-> NoConfig, features |-> {}]
    /\ configMutex = [writer |-> FALSE, readers |-> 0]
    /\ hub = [subscribed |-> FALSE, pending |-> <<>>, published |-> <<>>, left |-> 0]
    /\ onChange = [pc |-> "idle", data |-> NoConfig, features |-> {}, before |-> {},
                   removed |-> {}, added |-> {}, applied |-> NoConfig, handled |-> 0]
    /\ featureReader = [pc |-> "idle", op |-> "none", flag |-> "", result |-> "none",
                        quiet |-> FALSE, applied |-> NoConfig, left |-> 0]

NonPortsIdle ==
    /\ rangeA = NoRange /\ rangeB = NoRange /\ verdict = NoVerdict
    /\ key = <<>> /\ parts = NoParts
    /\ WorkerIdle
    /\ MachinerIdle
    /\ DeployerIdle
    /\ SharedIdle

\* the entities the document refers to, all alive
InitEntities ==
    /\ modelLife = "alive"
    /\ machineLife = "alive"
    /\ subnetLife = IF subnetID = "" THEN "removed" ELSE "alive"
    /\ unitLife = [u \in Units |-> "alive"]
    /\ remover = IdleRemover

Init ==
    /\ store = EmptyStore
    /\ NonPortsIdle
    /\ subnetID = ""
    /\ InitEntities
    /\ handle = [w \in Writers |-> PortsVal(<<>>, 0, TRUE)]
    /\ call = [w \in Writers |-> IdleCall]
    /\ budget = [w \in Writers |-> MaxCalls]

Next ==
    \/ \E w \in Writers : GetPorts(w)
    \/ \E w \in Writers : OpenPorts(w)
    \/ \E w \in Writers : ClosePorts(w)
    \/ \E w \in Writers : RunBuild(w)
    \/ \E w \in Writers : RunBuildReadFails(w)
    \/ \E w \in Writers : RunTransaction(w)

Spec == Init /\ [][Next]_vars

-----------------------------------------------------------------------------
(* SpecRemoval: the writers, Ports.Remove and the removal of units, from a *)
(* document that holds one range of each unit                              *)

StoredTwo ==
    [exists |-> TRUE,
     Ports |-> <<PR("web/0", 8080, 8080, "tcp"), PR("db/0", 80, 90, "tcp")>>,
     TxnRevno |-> 1 + 1]

InitRemoval ==
    /\ store = StoredTwo
    /\ NonPortsIdle
    /\ subnetID = ""
    /\ InitEntities
    /\ handle = [w \in Writers |-> PortsVal(store.Ports, store.TxnRevno, FALSE)]
    /\ call = [w \in Writers |-> IdleCall]
    /\ budget = [w \in Writers |-> MaxCallsRemoval]

NextRemoval ==
    \/ \E w \in Writers : GetPorts(w)
    \/ \E w \in Writers : OpenPorts(w)
    \/ \E w \in Writers : ClosePorts(w)
    \/ \E w \in Writers : Remove(w)
    \/ \E w \in Writers : RunBuild(w)
    \/ \E w \in Writers : RunTransaction(w)
    \/ \E u \in Units : EnsureDead(u)
    \/ \E u \in Units : RemoveUnitBuild(u)
    \/ RemoveUnitTxn

SpecRemoval == InitRemoval /\ [][NextRemoval]_vars

-----------------------------------------------------------------------------
(* SpecConverge: concurrent OpenPorts calls with pairwise non-conflicting  *)
(* ranges on one document key, each writer with a handle just read or one  *)
(* read before the document was created, and nothing else changing the     *)
(* document or the entities it refers to                                   *)

\* the range the document holds initially, when it exists initially
StoredOne ==
    [exists |-> TRUE, Ports |-> <<PR("db/0", 80, 90, "tcp")>>, TxnRevno |-> 1]

\* the range writer w opens: three distinct ranges that conflict neither
\* with each other nor with the initial one; a fourth writer repeats the first
ConvRange(w) ==
    LET k == (w - 1) % nrRetries IN
    PR(IF k = 1 THEN "db/0" ELSE "web/0", 8000 + k, 8000 + k, IF k = 2 THEN "udp" ELSE "tcp")

InitConverge ==
    /\ store \in {EmptyStore, StoredOne}
    /\ NonPortsIdle
    /\ subnetID = ""
    /\ InitEntities
    /\ handle \in [Openers -> {getOrCreatePorts, PortsVal(<<>>, 0, TRUE)}]
    /\ call = [w \in Openers |-> IdleCall]
    /\ \E active \in SUBSET Openers :
          /\ active # {}
          /\ budget = [w \in Openers |-> IF w \in active THEN 1 ELSE 0]

ConvOpenPorts(w) == StartCall(w, "open", ConvRange(w))

NextConverge ==
    \/ \E w \in Openers : ConvOpenPorts(w)
    \/ \E w \in Openers : RunBuild(w)
    \/ \E w \in Openers : RunTransaction(w)

SpecConverge == InitConverge /\ [][NextConverge]_vars

-----------------------------------------------------------------------------
(* SpecLifecycle: two writers of the ports document of a machine on a       *)
(* subnet, one call each, while the model, the machine, the subnet and the  *)
(* units advance through their lifecycles                                   *)

\* the calls of one writer in SpecLifecycle
MaxCallsLifecycle == 1

\* the subnet of the document of SpecLifecycle
LifecycleSubnet == "0.1.2.0/24"

\* the model is destroyed: it is no longer alive
DestroyModel ==
    /\ modelLife = "alive"
    /\ modelLife' = "dying"
    /\ UNCHANGED <<store, machineLife, subnetLife, unitLife, handle, call, budget,
                   remover, subnetID, nonPortsVars>>

\* the machine becomes dying, then dead
AdvanceMachineLife ==
    /\ machineLife \in {"alive", "dying"}
    /\ machineLife' = IF machineLife = "alive" THEN "dying" ELSE "dead"
    /\ UNCHANGED <<store, modelLife, subnetLife, unitLife, handle, call, budget,
                   remover, subnetID, nonPortsVars>>

\* the subnet becomes dying, then dead, then is removed
AdvanceSubnetLife ==
    /\ subnetID # ""
    /\ subnetLife \in {"alive", "dying", "dead"}
    /\ subnetLife' = CASE subnetLife = "alive" -> "dying"
                       [] subnetLife = "dying" -> "dead"
                       [] OTHER -> "removed"
    /\ UNCHANGED <<store, modelLife, machineLife, unitLife, handle, call, budget,
                   remover, subnetID, nonPortsVars>>

InitLifecycle ==
    /\ store \in {EmptyStore, StoredOne}
    /\ NonPortsIdle
    /\ subnetID = LifecycleSubnet
    /\ InitEntities
    /\ handle \in [Writers -> {getOrCreatePorts, PortsVal(<<>>, 0, TRUE)}]
    /\ call = [w \in Writers |-> IdleCall]
    /\ budget = [w \in Writers |-> MaxCallsLifecycle]

NextLifecycle ==
    \/ \E w \in Writers : OpenPorts(w)
    \/ \E w \in Writers : ClosePorts(w)
    \/ \E w \in Writers : RunBuild(w)
    \/ \E w \in Writers : RunBuildReadFails(w)
    \/ \E w \in Writers : RunTransaction(w)
    \/ DestroyModel
    \/ AdvanceMachineLife
    \/ AdvanceSubnetLife
    \/ \E u \in Units : EnsureDead(u)

SpecLifecycle == InitLifecycle /\ [][NextLifecycle]_vars

-----------------------------------------------------------------------------
(* SpecSingle: one writer with one handle from getOrCreatePorts, calling    *)
(* OpenPorts and ClosePorts in any order, with nothing else writing         *)

\* the calls of the writer of SpecSingle
MaxCallsSingle == 4

\* the one writer of SpecSingle
SingleWriters == {1}

InitSingle ==
    /\ store \in {EmptyStore, StoredOne, StoredTwo}
    /\ NonPortsIdle
    /\ subnetID = ""
    /\ InitEntities
    /\ handle = [w \in SingleWriters |-> getOrCreatePorts]
    /\ call = [w \in SingleWriters |-> IdleCall]
    /\ budget = [w \in SingleWriters |-> MaxCallsSingle]

NextSingle ==
    \/ \E w \in SingleWriters : OpenPorts(w)
    \/ \E w \in SingleWriters : ClosePorts(w)
    \/ \E w \in SingleWriters : RunBuild(w)
    \/ \E w \in SingleWriters : RunBuildReadFails(w)
    \/ \E w \in SingleWriters : RunTransaction(w)

SpecSingle == InitSingle /\ [][NextSingle]_vars

-----------------------------------------------------------------------------
(* SpecRanges: Validate and CheckConflicts applied to pairs of port ranges, *)
(* and OpenPorts of the first range of the pair on a new document          *)

\* the ranges given to Validate and CheckConflicts: valid and invalid units
\* and protocols, bounds inside and outside 1..65535, the icmp sentinel
RangeInputs ==
    {PR(u, b[1], b[2], proto) :
        u \in {"web/0", "db/0", "web"},
        b \in {<<-1, -1>>, <<0, 80>>, <<1, 1>>, <<1, 90>>, <<80, 80>>, <<80, 90>>,
               <<90, 80>>, <<90, 65535>>, <<65535, 65536>>},
        proto \in {"tcp", "udp", "icmp", "TCP", "sctp"}}

\* the one writer of SpecRanges
RangeWriters == {1}

InitRanges ==
    /\ rangeA \in RangeInputs
    /\ rangeB \in RangeInputs
    /\ verdict = NoVerdict
    /\ key = <<>> /\ parts = NoParts
    /\ WorkerIdle
    /\ MachinerIdle
    /\ DeployerIdle
    /\ SharedIdle
    /\ store = EmptyStore
    /\ subnetID = ""
    /\ InitEntities
    /\ handle = [w \in RangeWriters |-> PortsVal(<<>>, 0, TRUE)]
    /\ call = [w \in RangeWriters |-> IdleCall]
    /\ budget = [w \in RangeWriters |-> 1]

\* Validate of each range and CheckConflicts of the pair, in both orders
CheckRanges ==
    /\ verdict = NoVerdict
    /\ verdict' = [a |-> Validate(rangeA), b |-> Validate(rangeB),
                   ab |-> CheckConflicts(rangeA, rangeB), ba |-> CheckConflicts(rangeB, rangeA)]
    /\ UNCHANGED <<store, modelLife, machineLife, subnetLife, unitLife, handle, call,
                   budget, remover, subnetID, rangeA, rangeB, keyVars, workerVars,
                   machinerVars, deployerVars, sharedVars>>

\* OpenPorts(rangeA)
OpenInput(w) == StartCall(w, "open", rangeA)

NextRanges ==
    \/ CheckRanges
    \/ \E w \in RangeWriters : OpenInput(w)
    \/ \E w \in RangeWriters : RunBuild(w)
    \/ \E w \in RangeWriters : RunTransaction(w)

SpecRanges == InitRanges /\ [][NextRanges]_vars

-----------------------------------------------------------------------------
(* SpecKeys: extractPortsIDParts applied to document keys.  A key is the   *)
(* sequence of its characters.                                             *)

\* the characters of the keys: a lower-case letter, the separator, digits
\* and the slash of a container's machine id
KeyChars == {"m", "#", "0", "1", "/"}
KeyDigits == {"0", "1"}
KeyLetters == {"m"}

\* names.NumberSnippet: (?:0|[1-9][0-9]*)
IsNumber(s) ==
    \/ s = <<"0">>
    \/ /\ Len(s) >= 1
       /\ s[1] \in KeyDigits \ {"0"}
       /\ \A i \in 1..Len(s) : s[i] \in KeyDigits

\* names.ContainerTypeSnippet: [a-z]+
IsContainerType(s) == Len(s) >= 1 /\ \A i \in 1..Len(s) : s[i] \in KeyLetters

\* names.MachineSnippet matched against the whole of s:
\* NumberSnippet(?:/ContainerTypeSnippet/NumberSnippet)*
RECURSIVE IsMachineId(_)
IsMachineId(s) ==
    \/ IsNumber(s)
    \/ \E i, j \in 1..Len(s) :
          /\ i < j
          /\ s[i] = "/" /\ s[j] = "/"
          /\ IsMachineId(SubSeq(s, 1, i - 1))
          /\ IsContainerType(SubSeq(s, i + 1, j - 1))
          /\ IsNumber(SubSeq(s, j + 1, Len(s)))

\* portsGlobalKey: "m#" + machineID + "#" + subnetID (here: subnet)
portsGlobalKey(machineID, subnet) == <<"m", "#">> \o machineID \o <<"#">> \o subnet

\* portsIDRe matched at position i of the key: "m#", a machine id up to the
\* next "#", and any subnet up to the end; the position of that "#", or 0
MatchAt(k, i) ==
    IF i + 1 <= Len(k) /\ k[i] = "m" /\ k[i + 1] = "#"
       /\ (\E j \in (i + 2)..Len(k) : k[j] = "#")
    THEN LET j == Min({x \in (i + 2)..Len(k) : k[x] = "#"}) IN
         IF IsMachineId(SubSeq(k, i + 2, j - 1)) THEN j ELSE 0
    ELSE 0

\* extractPortsIDParts: FindStringSubmatch returns the leftmost match of
\* portsIDRe, which is not anchored at the start of the key
extractPortsIDParts(globalKey) ==
    LET starts == {i \in 1..Len(globalKey) : MatchAt(globalKey, i) # 0} IN
    IF starts = {} THEN [err |-> "ErrNotValid", machine |-> <<>>, subnet |-> <<>>]
    ELSE LET i == Min(starts)
             j == MatchAt(globalKey, i)
         IN [err |-> "nil",
             machine |-> SubSeq(globalKey, i + 2, j - 1),
             subnet |-> SubSeq(globalKey, j + 1, Len(globalKey))]

\* the keys given to extractPortsIDParts: every key of up to MaxKeyLen
\* characters, and keys of machines in containers with and without text
\* before them
KeyInputs ==
    UNION {[1..n -> KeyChars] : n \in 0..MaxKeyLen}
    \cup {prefix \o portsGlobalKey(m, sub) :
            prefix \in {<<>>, <<"0">>, <<"m", "#">>},
            m \in {<<"1", "/", "m", "/", "0">>, <<"1", "/", "m", "/", "0", "1">>,
                   <<"0", "/", "m", "/", "1", "/", "m", "m", "/", "0">>},
            sub \in {<<>>, <<"1">>, <<"#", "0">>}}

InitKeys ==
    /\ key \in KeyInputs
    /\ parts = NoParts
    /\ rangeA = NoRange /\ rangeB = NoRange /\ verdict = NoVerdict
    /\ WorkerIdle
    /\ MachinerIdle
    /\ DeployerIdle
    /\ SharedIdle
    /\ store = EmptyStore
    /\ subnetID = ""
    /\ InitEntities
    /\ handle = <<>>
    /\ call = <<>>
    /\ budget = <<>>

\* extractPortsIDParts(key)
ExtractParts ==
    /\ parts = NoParts
    /\ parts' = extractPortsIDParts(key)
    /\ UNCHANGED <<store, modelLife, machineLife, subnetLife, unitLife, handle, call,
                   budget, remover, subnetID, rangeVars, key, workerVars,
                   machinerVars, deployerVars, sharedVars>>

NextKeys == ExtractParts

SpecKeys == InitKeys /\ [][NextKeys]_vars

-----------------------------------------------------------------------------
(* SpecWorker: the instance mutater worker.  newWorker hands the loop and   *)
(* the machine watcher to a catacomb; the loop starts one reconciler per    *)
(* machine and receives their completion signals on machineDead.            *)

\* the machines the watcher reports
NumMachines == 2
\* the batches the machine watcher sends
MaxBatches == 3
\* the calls of Kill and Stop
MaxKills == 1
\* the failures of startMachines and of the reconcilers
MaxFailures == 1

MachineTags == 1..NumMachines

\* catacomb.Dead() is closed
dyingIsDead == tomb.state = "dead"

\* catacomb.Dying() is closed
dying == tomb.state \in {"dying", "dead"}

\* catacomb.ErrDying()
errDying == "ErrDying"

\* catacomb.Kill(err): the first non-nil error is kept; ErrDying changes
\* nothing; an alive catacomb becomes dying
catacombKill(t, err) ==
    IF err = errDying THEN t
    ELSE [state |-> IF t.state = "alive" THEN "dying" ELSE t.state,
          reason |-> IF t.reason = "nil" THEN err ELSE t.reason]

\* the state of a reconciler: not started, blocked on work-or-cancel, cleaning
\* up after the cancellation, sending its completion signal on machineDead.
\* With its pc and its stop signal, recon[id] records how many batches have
\* named id since its last reconciler was started (named) and how many earlier
\* reconcilers of id were still live when it was started (orphans)
ReconPcs == {"unseen", "running", "stopping", "signalling"}

\* the reconciler of id is started and has not emitted its completion signal
Live(id) == recon[id].pc \in {"running", "stopping", "signalling"}

InitWorker ==
    /\ tomb = [state |-> "alive", reason |-> "nil"]
    /\ loopState = [pc |-> "select", err |-> "nil"]
    /\ watcher = [state |-> "alive", pending |-> <<>>, err |-> "nil"]
    /\ machines = {}
    /\ recon = [id \in MachineTags |->
                    [pc |-> "unseen", stop |-> FALSE, named |-> 0, orphans |-> 0]]
    /\ env = [batches |-> MaxBatches, kills |-> MaxKills, failures |-> MaxFailures,
              stopCalled |-> FALSE, waited |-> "none", firstErr |-> "nil"]
    /\ MachinerIdle
    /\ DeployerIdle
    /\ SharedIdle
    /\ rangeA = NoRange /\ rangeB = NoRange /\ verdict = NoVerdict
    /\ key = <<>> /\ parts = NoParts
    /\ store = EmptyStore
    /\ subnetID = ""
    /\ InitEntities
    /\ handle = <<>>
    /\ call = <<>>
    /\ budget = <<>>

\* what no action of the worker touches
UnchangedByWorker ==
    UNCHANGED <<store, modelLife, machineLife, subnetLife, unitLife, handle, call,
                budget, remover, subnetID, rangeVars, keyVars,
                machinerVars, deployerVars, sharedVars>>

\* env.firstErr after the report of err: the first error that the loop, a
\* reconciler or the watcher handed to the catacomb; ErrDying reports nothing
Reported(err) ==
    IF env.firstErr = "nil" /\ err # errDying THEN err ELSE env.firstErr

\* the loop returns err; catacomb.Invoke's goroutine kills the catacomb with it
loopReturn(err) ==
    /\ loopState' = [pc |-> "returned", err |-> err]
    /\ tomb' = catacombKill(tomb, err)
    /\ env' = [env EXCEPT !.firstErr = Reported(err)]
    /\ UNCHANGED <<watcher, machines, recon>>

\* case <-m.context.dying(): return m.context.errDying()
loopDying ==
    /\ loopState.pc = "select"
    /\ dying
    /\ loopReturn(errDying)

\* the loop goes round its for with nothing changed
loopChangesClosedAsEmptyBatch ==
    /\ UNCHANGED <<tomb, loopState, watcher, machines, recon, env>>

\* if !ok { return errors.New("machines watcher closed") }
loopChangesClosed ==
    /\ loopReturn("machines watcher closed")

\* m.startMachines(tags): a reconciler is started and registered for every tag
\* without a registry entry, a registered reconciler whose tag is absent from
\* the batch is signalled to stop, a registered tag in the batch is left as
\* it is
startMachines(tags) ==
    /\ machines' = machines \cup tags
    /\ recon' = [id \in MachineTags |->
                    IF id \in tags \ machines
                    THEN [pc |-> "running", stop |-> FALSE, named |-> 1,
                          orphans |-> recon[id].orphans + (IF Live(id) THEN 1 ELSE 0)]
                    ELSE IF id \in tags \cap machines
                    THEN [recon[id] EXCEPT !.named = @ + 1]
                    ELSE IF id \in machines \ tags THEN [recon[id] EXCEPT !.stop = TRUE]
                    ELSE recon[id]]

\* the batch is received and startMachines is not called
loopChangesBatchDropsBatch ==
    /\ watcher.pending # <<>>
    /\ watcher' = [watcher EXCEPT !.pending = <<>>]
    /\ UNCHANGED <<tomb, loopState, machines, recon, env>>

\* case ids, ok := <-w.machineWatcher.Changes() with a batch
loopChangesBatch ==
    /\ watcher.pending # <<>>
    /\ watcher' = [watcher EXCEPT !.pending = <<>>]
    /\ \/ /\ startMachines(watcher.pending[1])
          /\ UNCHANGED <<tomb, loopState, env>>
       \/ /\ env.failures > 0
          /\ env' = [env EXCEPT !.failures = @ - 1,
                                 !.firstErr = Reported("startMachines failed")]
          /\ loopState' = [pc |-> "returned", err |-> "startMachines failed"]
          /\ tomb' = catacombKill(tomb, "startMachines failed")
          /\ UNCHANGED <<machines, recon>>

\* case ids, ok := <-w.machineWatcher.Changes()
loopChanges ==
    /\ loopState.pc = "select"
    /\ IF watcher.state # "alive"
       THEN loopChangesClosed
       ELSE loopChangesBatch

\* the entry of id is deleted without a receive from machineDead
loopMachineDeadWithoutSignal(id) ==
    /\ loopState.pc = "select"
    /\ id \in machines
    /\ machines' = machines \ {id}
    /\ UNCHANGED <<tomb, loopState, watcher, recon, env>>

\* the receive from machineDead empties the whole registry
loopMachineDeadClearsRegistry(id) ==
    /\ loopState.pc = "select"
    /\ recon[id].pc = "signalling"
    /\ machines' = {}
    /\ recon' = [recon EXCEPT ![id].pc = "unseen", ![id].stop = FALSE]
    /\ UNCHANGED <<tomb, loopState, watcher, env>>

\* case d := <-m.machineDead: delete(m.machines, d.Tag()); the reconciler's
\* send on the unbuffered channel completes with this receive
loopMachineDead(id) ==
    /\ loopState.pc = "select"
    /\ recon[id].pc = "signalling"
    /\ machines' = machines \ {id}
    /\ recon' = [recon EXCEPT ![id].pc = "unseen", ![id].stop = FALSE]
    /\ UNCHANGED <<tomb, loopState, watcher, env>>

\* one round of the select of mutaterWorker.loop: any ready case may be taken
loop ==
    /\ \/ loopDying
       \/ loopChanges
       \/ \E id \in MachineTags : loopMachineDead(id)
    /\ UnchangedByWorker

\* w.catacomb.Kill(nil)
Kill ==
    /\ tomb.state \in {"alive", "dying"}
    /\ env.kills > 0
    /\ env' = [env EXCEPT !.kills = @ - 1]
    /\ tomb' = catacombKill(tomb, "nil")
    /\ UNCHANGED <<loopState, watcher, machines, recon>>
    /\ UnchangedByWorker

\* w.catacomb.Wait(): blocks until the catacomb is dead, returns its error
Wait ==
    /\ tomb.state = "dead"
    /\ env.waited = "none"
    /\ env' = [env EXCEPT !.waited = tomb.reason]
    /\ UNCHANGED <<tomb, loopState, watcher, machines, recon>>
    /\ UnchangedByWorker

\* w.Kill() of Stop; its return w.Wait() is the action Wait
Stop ==
    /\ tomb.state \in {"alive", "dying"}
    /\ env.kills > 0
    /\ ~env.stopCalled
    /\ env' = [env EXCEPT !.kills = @ - 1, !.stopCalled = TRUE]
    /\ tomb' = catacombKill(tomb, "nil")
    /\ UNCHANGED <<loopState, watcher, machines, recon>>
    /\ UnchangedByWorker

\* the reconciler's error is dropped
KillWithErrorDropsError(err) ==
    /\ tomb' = tomb

\* the catacomb's error is replaced by err
KillWithErrorOverwrites(err) ==
    /\ tomb' = [state |-> IF tomb.state = "alive" THEN "dying" ELSE tomb.state,
                reason |-> err]

\* w.catacomb.Kill(err), called by a reconciler
KillWithError(err) ==
    /\ tomb' = catacombKill(tomb, err)

\* the reconciler of id fails in its work and reports the failure upward,
\* then goes on to its cleanup
reconFail(id) ==
    /\ recon[id].pc = "running"
    /\ env.failures > 0
    /\ env' = [env EXCEPT !.failures = @ - 1, !.firstErr = Reported("reconciler failed")]
    /\ KillWithError("reconciler failed")
    /\ recon' = [recon EXCEPT ![id].pc = "stopping"]
    /\ UNCHANGED <<loopState, watcher, machines>>
    /\ UnchangedByWorker

\* the reconciler of id, blocked on work-or-cancel, observes the cancellation:
\* its own stop signal or the dying of the worker
reconObserve(id) ==
    /\ recon[id].pc = "running"
    /\ recon[id].stop \/ dying
    /\ recon' = [recon EXCEPT ![id].pc = "stopping"]
    /\ UNCHANGED <<tomb, loopState, watcher, machines, env>>
    /\ UnchangedByWorker

\* the reconciler of id ends its cleanup and offers its completion signal
reconCleanup(id) ==
    /\ recon[id].pc = "stopping"
    /\ recon' = [recon EXCEPT ![id].pc = "signalling"]
    /\ UNCHANGED <<tomb, loopState, watcher, machines, env>>
    /\ UnchangedByWorker

\* the machine watcher has a batch for its Changes channel
feedEmit(b) ==
    /\ watcher.state = "alive"
    /\ watcher.pending = <<>>
    /\ env.batches > 0
    /\ env' = [env EXCEPT !.batches = @ - 1]
    /\ watcher' = [watcher EXCEPT !.pending = <<b>>]
    /\ UNCHANGED <<tomb, loopState, machines, recon>>
    /\ UnchangedByWorker

\* the machine watcher stops by itself, with or without an error, and closes
\* its Changes channel
feedClose(err) ==
    /\ watcher.state = "alive"
    /\ watcher' = [state |-> "stopped", pending |-> <<>>, err |-> err]
    /\ UNCHANGED <<tomb, loopState, machines, recon, env>>
    /\ UnchangedByWorker

\* the catacomb stops the worker of Plan.Init once it is dying
catacombStopWatcher ==
    /\ dying
    /\ watcher.state = "alive"
    /\ watcher' = [state |-> "stopped", pending |-> <<>>, err |-> "nil"]
    /\ UNCHANGED <<tomb, loopState, machines, recon, env>>
    /\ UnchangedByWorker

\* the catacomb's goroutine for the watcher: its Wait has returned, a non-nil
\* error kills the catacomb
catacombReapWatcher ==
    /\ watcher.state = "stopped"
    /\ watcher' = [watcher EXCEPT !.state = "reaped"]
    /\ tomb' = IF watcher.err = "nil" THEN tomb ELSE catacombKill(tomb, watcher.err)
    /\ env' = [env EXCEPT !.firstErr = Reported(watcher.err)]
    /\ UNCHANGED <<loopState, machines, recon>>
    /\ UnchangedByWorker

\* catacomb.Invoke's goroutine: Work has returned and every added worker has
\* stopped, the catacomb is dead
catacombDone ==
    /\ tomb.state = "dying"
    /\ loopState.pc = "returned"
    /\ watcher.state = "reaped"
    /\ tomb' = [tomb EXCEPT !.state = "dead"]
    /\ UNCHANGED <<loopState, watcher, machines, recon, env>>
    /\ UnchangedByWorker

NextWorker ==
    \/ loop
    \/ Kill
    \/ Stop
    \/ Wait
    \/ \E id \in MachineTags : reconFail(id)
    \/ \E id \in MachineTags : reconObserve(id)
    \/ \E id \in MachineTags : reconCleanup(id)
    \/ \E b \in SUBSET MachineTags : feedEmit(b)
    \/ \E err \in {"nil", "watcher failed"} : feedClose(err)
    \/ catacombStopWatcher
    \/ catacombReapWatcher
    \/ catacombDone

SpecWorker == InitWorker /\ [][NextWorker]_vars

\* every goroutine that can take a step eventually takes one: the loop, the
\* reconcilers and the goroutines of the catacomb; the callers of Kill and
\* Stop, the failures and the machine watcher are not obliged to act
FairWorker ==
    /\ WF_vars(loop)
    /\ \A id \in MachineTags : WF_vars(reconObserve(id))
    /\ \A id \in MachineTags : WF_vars(reconCleanup(id))
    /\ WF_vars(catacombStopWatcher)
    /\ WF_vars(catacombReapWatcher)
    /\ WF_vars(catacombDone)
    /\ WF_vars(Wait)

SpecWorkerFair == InitWorker /\ [][NextWorker]_vars /\ FairWorker

-----------------------------------------------------------------------------
(* SpecMachiner: the machiner API's Machine of machine 1, the machine in    *)
(* state behind it and the NotifyWatcher of Watch, as the machiner tests    *)
(* use them.                                                                *)

\* the calls made on the machine, through the API or in state
MaxMachinerCalls == 6

\* what every action of the machiner leaves alone
UnchangedByMachiner ==
    UNCHANGED <<store, modelLife, machineLife, subnetLife, unitLife, handle, call,
                budget, remover, subnetID, rangeVars, keyVars, workerVars,
                deployerVars, sharedVars>>

\* SetUpTest and s.machiner.Machine(names.NewMachineTag("1")): the machine
\* is alive with status pending
InitMachiner ==
    /\ machineDoc = [exists |-> TRUE, life |-> "alive", status |-> "pending"]
    /\ apiMachine = [life |-> "alive", op |-> "none", err |-> "none",
                     calls |-> MaxMachinerCalls, ensured |-> 0]
    /\ notify = [watching |-> FALSE, pending |-> FALSE, delivered |-> 0, changes |-> 0]
    /\ WorkerIdle
    /\ DeployerIdle
    /\ SharedIdle
    /\ rangeA = NoRange /\ rangeB = NoRange /\ verdict = NoVerdict
    /\ key = <<>> /\ parts = NoParts
    /\ store = EmptyStore
    /\ subnetID = ""
    /\ InitEntities
    /\ handle = <<>>
    /\ call = <<>>
    /\ budget = <<>>

\* the watcher after a change of the machine's lifecycle: an event is
\* waiting, one however many changes it stands for
Notified ==
    IF notify.watching
    THEN [notify EXCEPT !.pending = TRUE, !.changes = @ + 1]
    ELSE notify

\* the API's Machine after a call of op that returned err
Called(op, err) == [apiMachine EXCEPT !.op = op, !.err = err, !.calls = @ - 1]

\* EnsureDead fails on a machine that is dead already
MachineEnsureDeadOnce ==
    /\ apiMachine.calls > 0
    /\ IF machineDoc.exists /\ machineDoc.life # "dead"
       THEN /\ machineDoc' = [machineDoc EXCEPT !.life = "dead"]
            /\ apiMachine' = [Called("EnsureDead", "nil") EXCEPT !.ensured = @ + 1]
            /\ notify' = Notified
       ELSE /\ apiMachine' = Called("EnsureDead", "not found")
            /\ UNCHANGED <<machineDoc, notify>>
    /\ UnchangedByMachiner

\* machine.EnsureDead(): the machine in state becomes dead, or stays dead;
\* a removed machine is not found
MachineEnsureDead ==
    /\ apiMachine.calls > 0
    /\ IF machineDoc.exists
       THEN /\ machineDoc' = [machineDoc EXCEPT !.life = "dead"]
            /\ apiMachine' = [Called("EnsureDead", "nil") EXCEPT !.ensured = @ + 1]
            /\ notify' = IF machineDoc.life # "dead" THEN Notified ELSE notify
       ELSE /\ apiMachine' = Called("EnsureDead", "not found")
            /\ UNCHANGED <<machineDoc, notify>>
    /\ UnchangedByMachiner

\* another client of state destroys the machine: alive becomes dying
MachineDestroy ==
    /\ apiMachine.calls > 0
    /\ machineDoc.exists /\ machineDoc.life = "alive"
    /\ machineDoc' = [machineDoc EXCEPT !.life = "dying"]
    /\ apiMachine' = [apiMachine EXCEPT !.calls = @ - 1]
    /\ notify' = Notified
    /\ UnchangedByMachiner

\* s.machine.Remove(): a dead machine is removed from state
MachineRemove ==
    /\ apiMachine.calls > 0
    /\ machineDoc.exists /\ machineDoc.life = "dead"
    /\ machineDoc' = [machineDoc EXCEPT !.exists = FALSE]
    /\ apiMachine' = [apiMachine EXCEPT !.calls = @ - 1]
    /\ notify' = Notified
    /\ UnchangedByMachiner

\* SetStatus wakes the watcher
MachineSetStatusNotifies(st) ==
    /\ apiMachine.calls > 0
    /\ machineDoc.exists
    /\ machineDoc' = [machineDoc EXCEPT !.status = st]
    /\ apiMachine' = Called("SetStatus", "nil")
    /\ notify' = Notified
    /\ UnchangedByMachiner

\* machine.SetStatus(st, info, nil): the status of the machine in state
\* changes, its lifecycle does not
MachineSetStatus(st) ==
    /\ apiMachine.calls > 0
    /\ machineDoc.exists
    /\ machineDoc' = [machineDoc EXCEPT !.status = st]
    /\ apiMachine' = Called("SetStatus", "nil")
    /\ UNCHANGED notify
    /\ UnchangedByMachiner

\* machine.Refresh(): Life() is the life read by the last Refresh
MachineRefresh ==
    /\ apiMachine.calls > 0
    /\ IF machineDoc.exists
       THEN apiMachine' = [Called("Refresh", "nil") EXCEPT !.life = machineDoc.life]
       ELSE apiMachine' = Called("Refresh", "not found")
    /\ UNCHANGED <<machineDoc, notify>>
    /\ UnchangedByMachiner

\* machine.Watch(): the watcher starts with its initial event waiting
MachineWatch ==
    /\ apiMachine.calls > 0
    /\ machineDoc.exists
    /\ ~notify.watching
    /\ notify' = [watching |-> TRUE, pending |-> TRUE, delivered |-> 0, changes |-> 0]
    /\ apiMachine' = Called("Watch", "nil")
    /\ UNCHANGED machineDoc
    /\ UnchangedByMachiner

\* the watcher's Changes channel delivers the waiting event
NotifyDeliver ==
    /\ notify.watching /\ notify.pending
    /\ notify' = [notify EXCEPT !.pending = FALSE, !.delivered = @ + 1]
    /\ UNCHANGED <<machineDoc, apiMachine>>
    /\ UnchangedByMachiner

NextMachiner ==
    \/ MachineEnsureDead
    \/ MachineDestroy
    \/ MachineRemove
    \/ \E st \in {"started", "stopped"} : MachineSetStatus(st)
    \/ MachineRefresh
    \/ MachineWatch
    \/ NotifyDeliver

SpecMachiner == InitMachiner /\ [][NextMachiner]_vars

\* the watcher's goroutine sends a waiting event
SpecMachinerFair == InitMachiner /\ [][NextMachiner]_vars /\ WF_vars(NotifyDeliver)

-----------------------------------------------------------------------------
(* SpecDeployer: the deployer's SimpleContext over the fake service data,   *)
(* as SimpleContextSuite uses it.  A service name is the pair of what       *)
(* stands before the unit's tag and the unit: "jujud-unit-foo-123" has      *)
(* nothing before it, "jujud-machine-0:unit-mysql-0", the old format, has   *)
(* the deployer's tag.                                                      *)

\* the calls made on the deployer context and on the fake service data
MaxDeployerCalls == 5

\* the units of the tests
DeployUnits == {"mysql/0", "principal/1"}

\* the deployers' tags of the old service-name format
OldDeployers == {"machine-0", "unit-wordpress-0"}

\* "jujud-" + tag.String()
serviceName(u) == [deployer |-> "", unit |-> u]

\* the units that have an installed service, in either format
Deployed(svcs) == {n.unit : n \in svcs}

\* the list of the units of the installed services, each unit once
RECURSIVE ListUnits(_)
ListUnits(svcs) ==
    IF svcs = {} THEN <<>>
    ELSE LET n == CHOOSE n \in svcs : TRUE
             rest == ListUnits(svcs \ {n})
         IN  IF \E i \in 1..Len(rest) : rest[i] = n.unit THEN rest ELSE <<n.unit>> \o rest

\* what every action of the deployer leaves alone
UnchangedByDeployer ==
    UNCHANGED <<store, modelLife, machineLife, subnetLife, unitLife, handle, call,
                budget, remover, subnetID, rangeVars, keyVars, workerVars,
                machinerVars, sharedVars>>

\* SimpleToolsFixture.SetUp and getContext: no service installed
InitDeployer ==
    /\ services = {}
    /\ deployResult = [op |-> "none", err |-> "none", units |-> <<>>]
    /\ deployCalls = [left |-> MaxDeployerCalls, live |-> {}, recalled |-> 0]
    /\ WorkerIdle
    /\ MachinerIdle
    /\ SharedIdle
    /\ rangeA = NoRange /\ rangeB = NoRange /\ verdict = NoVerdict
    /\ key = <<>> /\ parts = NoParts
    /\ store = EmptyStore
    /\ subnetID = ""
    /\ InitEntities
    /\ handle = <<>>
    /\ call = <<>>
    /\ budget = <<>>

\* injectUnit(name, unitTag): a unit deployed earlier under the old format
InjectUnit(d, u) ==
    /\ deployCalls.left > 0
    /\ u \notin Deployed(services)
    /\ services' = services \cup {[deployer |-> d, unit |-> u]}
    /\ deployCalls' = [deployCalls EXCEPT !.left = @ - 1, !.live = @ \cup {u}]
    /\ UNCHANGED deployResult
    /\ UnchangedByDeployer

\* manager.DeployUnit(u, password) of a unit that is not deployed
DeployUnit(u) ==
    /\ deployCalls.left > 0
    /\ u \notin Deployed(services)
    /\ services' = services \cup {serviceName(u)}
    /\ deployResult' = [op |-> "DeployUnit", err |-> "nil", units |-> <<>>]
    /\ deployCalls' = [deployCalls EXCEPT !.left = @ - 1, !.live = @ \cup {u}]
    /\ UnchangedByDeployer

\* RecallUnit finds only the service named in the new format
RecallUnitNewFormatOnly(u) ==
    /\ deployCalls.left > 0
    /\ IF serviceName(u) \in services
       THEN /\ services' = services \ {serviceName(u)}
            /\ deployResult' = [op |-> "RecallUnit", err |-> "nil", units |-> <<>>]
            /\ deployCalls' = [deployCalls EXCEPT !.left = @ - 1, !.live = @ \ {u},
                                                  !.recalled = @ + 1]
       ELSE /\ deployResult' = [op |-> "RecallUnit", err |-> "not deployed",
                                units |-> <<>>]
            /\ deployCalls' = [deployCalls EXCEPT !.left = @ - 1]
            /\ UNCHANGED services
    /\ UnchangedByDeployer

\* manager.RecallUnit(u): the service of u, in either format, is removed;
\* a unit without one is not deployed
RecallUnit(u) ==
    /\ deployCalls.left > 0
    /\ IF u \in Deployed(services)
       THEN /\ services' = {n \in services : n.unit # u}
            /\ deployResult' = [op |-> "RecallUnit", err |-> "nil", units |-> <<>>]
            /\ deployCalls' = [deployCalls EXCEPT !.left = @ - 1, !.live = @ \ {u},
                                                  !.recalled = @ + 1]
       ELSE /\ deployResult' = [op |-> "RecallUnit", err |-> "not deployed",
                                units |-> <<>>]
            /\ deployCalls' = [deployCalls EXCEPT !.left = @ - 1]
            /\ UNCHANGED services
    /\ UnchangedByDeployer

\* manager.DeployedUnits()
DeployedUnits ==
    /\ deployCalls.left > 0
    /\ deployResult' = [op |-> "DeployedUnits", err |-> "nil",
                        units |-> ListUnits(services)]
    /\ deployCalls' = [deployCalls EXCEPT !.left = @ - 1]
    /\ UNCHANGED services
    /\ UnchangedByDeployer

NextDeployer ==
    \/ \E d \in OldDeployers, u \in DeployUnits : InjectUnit(d, u)
    \/ \E u \in DeployUnits : DeployUnit(u)
    \/ \E u \in DeployUnits : RecallUnit(u)
    \/ DeployedUnits

SpecDeployer == InitDeployer /\ [][NextDeployer]_vars

-----------------------------------------------------------------------------
(* SpecShared: the API server's sharedServerContext.  The central hub       *)
(* delivers controller-config-changed notifications to onConfigChanged, one *)
(* at a time, while a caller reads through featureEnabled and               *)
(* maxDebugLogDuration.  A controller config is its list of feature flags   *)
(* and its max-debug-log-duration.                                          *)

\* the notifications published to the hub
MaxNotifications == 3

\* the calls of the reader
MaxReads == 2

\* feature.OldPresence
OldPresence == "old-presence"

\* another feature flag
DeveloperMode == "developer-mode"

FeatureFlags == {OldPresence, DeveloperMode}

\* the controller configs of the model
Configs ==
    {[features |-> <<>>, maxDebugLog |-> 24],
     [features |-> <<OldPresence>>, maxDebugLog |-> 24],
     [features |-> <<DeveloperMode>>, maxDebugLog |-> 12],
     [features |-> <<DeveloperMode, OldPresence>>, maxDebugLog |-> 12]}

\* Config.Features: the set of the flags in the config's list
Features(cfg) == {cfg.features[i] : i \in 1..Len(cfg.features)}

\* Config.MaxDebugLogDuration
MaxDebugLogDuration(cfg) == cfg.maxDebugLog

\* apiserver.Restart{LocalOnly: true}
Restart == [topic |-> "apiserver.restart", LocalOnly |-> TRUE]

\* the messages the hub delivers on controller.ConfigChanged: a config, or
\* data that could not be read, delivered with an error
ConfigChangedMessages ==
    {[Config |-> cfg, err |-> "nil"] : cfg \in Configs}
    \cup {[Config |-> NoConfig, err |-> "error"]}

\* what every action of the shared context leaves alone
UnchangedByShared ==
    UNCHANGED <<store, modelLife, machineLife, subnetLife, unitLife, handle, call,
                budget, remover, subnetID, rangeVars, keyVars, workerVars,
                machinerVars, deployerVars>>

\* newSharedServerContex: the current controller config and its features,
\* and the subscription to controller.ConfigChanged
InitShared ==
    /\ \E cfg \in Configs :
          /\ sharedCtx = [controllerConfig |-> cfg, features |-> Features(cfg)]
          /\ onChange = [pc |-> "idle", data |-> NoConfig, features |-> {},
                         before |-> {}, removed |-> {}, added |-> {},
                         applied |-> cfg, handled |-> 0]
    /\ configMutex = [writer |-> FALSE, readers |-> 0]
    /\ hub = [subscribed |-> TRUE, pending |-> <<>>, published |-> <<>>,
              left |-> MaxNotifications]
    /\ featureReader = [pc |-> "idle", op |-> "none", flag |-> "", result |-> "none",
                        quiet |-> FALSE, applied |-> NoConfig, left |-> MaxReads]
    /\ rangeA = NoRange /\ rangeB = NoRange /\ verdict = NoVerdict
    /\ key = <<>> /\ parts = NoParts
    /\ WorkerIdle
    /\ MachinerIdle
    /\ DeployerIdle
    /\ store = EmptyStore
    /\ subnetID = ""
    /\ InitEntities
    /\ handle = <<>>
    /\ call = <<>>
    /\ budget = <<>>

\* an API call changes the controller config: the hub queues the
\* notification for the subscriber
hubPublishConfigChanged(msg) ==
    /\ hub.subscribed
    /\ hub.left > 0
    /\ hub' = [hub EXCEPT !.pending = Append(@, msg), !.left = @ - 1]
    /\ UNCHANGED <<sharedCtx, configMutex, onChange, featureReader>>
    /\ UnchangedByShared

\* onConfigChanged is called with the next notification: an error is logged
\* and nothing else is done; otherwise features := data.Config.Features()
onConfigChangedEnter ==
    /\ hub.subscribed
    /\ onChange.pc = "idle"
    /\ hub.pending # <<>>
    /\ LET msg == Head(hub.pending) IN
       /\ hub' = [hub EXCEPT !.pending = Tail(@)]
       /\ IF msg.err # "nil"
          THEN onChange' = [onChange EXCEPT !.handled = @ + 1, !.data = msg.Config,
                                            !.before = sharedCtx.features,
                                            !.removed = {}, !.added = {}]
          ELSE onChange' = [onChange EXCEPT !.pc = "lock", !.data = msg.Config,
                                            !.features = Features(msg.Config),
                                            !.before = sharedCtx.features,
                                            !.removed = {}, !.added = {}]
    /\ UNCHANGED <<sharedCtx, configMutex, featureReader>>
    /\ UnchangedByShared

\* onConfigChangedLock without the lock: the handler goes on while readers
\* hold the mutex
onConfigChangedNoLock ==
    /\ onChange.pc = "lock"
    /\ onChange' = [onChange EXCEPT !.pc = "setConfig"]
    /\ UNCHANGED <<sharedCtx, configMutex, hub, featureReader>>
    /\ UnchangedByShared

\* c.configMutex.Lock()
onConfigChangedLock ==
    /\ onChange.pc = "lock"
    /\ ~configMutex.writer /\ configMutex.readers = 0
    /\ configMutex' = [configMutex EXCEPT !.writer = TRUE]
    /\ onChange' = [onChange EXCEPT !.pc = "setConfig"]
    /\ UNCHANGED <<sharedCtx, hub, featureReader>>
    /\ UnchangedByShared

\* c.controllerConfig = data.Config
onConfigChangedSetConfig ==
    /\ onChange.pc = "setConfig"
    /\ sharedCtx' = [sharedCtx EXCEPT !.controllerConfig = onChange.data]
    /\ onChange' = [onChange EXCEPT !.pc = "setFeatures"]
    /\ UNCHANGED <<configMutex, hub, featureReader>>
    /\ UnchangedByShared

\* removed, added, and c.features = features
onConfigChangedSetFeatures ==
    /\ onChange.pc = "setFeatures"
    /\ sharedCtx' = [sharedCtx EXCEPT !.features = onChange.features]
    /\ onChange' = [onChange EXCEPT !.pc = "unlock",
                                    !.removed = sharedCtx.features \ onChange.features,
                                    !.added = onChange.features \ sharedCtx.features]
    /\ UNCHANGED <<configMutex, hub, featureReader>>
    /\ UnchangedByShared

\* c.configMutex.Unlock()
onConfigChangedUnlock ==
    /\ onChange.pc = "unlock"
    /\ configMutex' = [configMutex EXCEPT !.writer = FALSE]
    /\ onChange' = [onChange EXCEPT !.pc = "publish"]
    /\ UNCHANGED <<sharedCtx, hub, featureReader>>
    /\ UnchangedByShared

\* onConfigChangedPublish looking at the added flags only
onConfigChangedPublishOnAddedOnly ==
    /\ onChange.pc = "publish"
    /\ hub' = IF OldPresence \in onChange.added
              THEN [hub EXCEPT !.published = Append(@, Restart)]
              ELSE hub
    /\ onChange' = [onChange EXCEPT !.pc = "idle", !.applied = onChange.data,
                                    !.handled = @ + 1]
    /\ UNCHANGED <<sharedCtx, configMutex, featureReader>>
    /\ UnchangedByShared

\* the restart message when the old presence flag is among the removed or
\* the added flags, and the return of onConfigChanged
onConfigChangedPublish ==
    /\ onChange.pc = "publish"
    /\ hub' = IF OldPresence \in onChange.removed \/ OldPresence \in onChange.added
              THEN [hub EXCEPT !.published = Append(@, Restart)]
              ELSE hub
    /\ onChange' = [onChange EXCEPT !.pc = "idle", !.applied = onChange.data,
                                    !.handled = @ + 1]
    /\ UNCHANGED <<sharedCtx, configMutex, featureReader>>
    /\ UnchangedByShared

onConfigChanged ==
    \/ onConfigChangedEnter
    \/ onConfigChangedLock
    \/ onConfigChangedSetConfig
    \/ onConfigChangedSetFeatures
    \/ onConfigChangedUnlock
    \/ onConfigChangedPublish

\* a caller enters featureEnabled(flag) or maxDebugLogDuration:
\* c.configMutex.RLock()
readerRLock(op, flag) ==
    /\ featureReader.pc = "idle"
    /\ featureReader.left > 0
    /\ ~configMutex.writer
    /\ configMutex' = [configMutex EXCEPT !.readers = @ + 1]
    /\ featureReader' = [featureReader EXCEPT !.pc = "rlocked", !.op = op,
                                              !.flag = flag, !.result = "none",
                                              !.quiet = (onChange.pc = "idle"),
                                              !.applied = onChange.applied,
                                              !.left = @ - 1]
    /\ UNCHANGED <<sharedCtx, hub, onChange>>
    /\ UnchangedByShared

\* the read under the lock and the deferred RUnlock
readerReturn(value) ==
    /\ featureReader.pc = "rlocked"
    /\ configMutex' = [configMutex EXCEPT !.readers = @ - 1]
    /\ featureReader' = [featureReader EXCEPT !.pc = "idle", !.result = value]
    /\ UNCHANGED <<sharedCtx, hub, onChange>>
    /\ UnchangedByShared

\* sharedServerContext.featureEnabled
featureEnabled ==
    \/ \E flag \in FeatureFlags : readerRLock("featureEnabled", flag)
    \/ /\ featureReader.op = "featureEnabled"
       /\ readerReturn(featureReader.flag \in sharedCtx.features)

\* sharedServerContext.maxDebugLogDuration
maxDebugLogDuration ==
    \/ readerRLock("maxDebugLogDuration", "")
    \/ /\ featureReader.op = "maxDebugLogDuration"
       /\ readerReturn(MaxDebugLogDuration(sharedCtx.controllerConfig))

\* sharedServerContext.Close: c.unsubscribe()
Close ==
    /\ hub.subscribed
    /\ hub' = [hub EXCEPT !.subscribed = FALSE]
    /\ UNCHANGED <<sharedCtx, configMutex, onChange, featureReader>>
    /\ UnchangedByShared

NextShared ==
    \/ \E msg \in ConfigChangedMessages : hubPublishConfigChanged(msg)
    \/ onConfigChanged
    \/ featureEnabled
    \/ maxDebugLogDuration
    \/ Close

SpecShared == InitShared /\ [][NextShared]_vars

-----------------------------------------------------------------------------
(* Properties *)

\* the call of w has returned
Returned(w) == call[w].op # "none" /\ call[w].pc = "idle"

\* the step is the commit of the operations of w's call
Commits(w) == call[w].pc = "txn" /\ call'[w].applied = call[w].applied + 1

\* the conflict relation as the data model states it
Conflict(a, b) == a.Protocol = b.Protocol /\ Overlap(a, b) /\ a # b

\* C1: the stored document never holds two ranges with the same protocol and
\* overlapping bounds, unless the two are identical
C1_NoConflictingRangesStored ==
    \A i, j \in 1..Len(store.Ports) : ~Conflict(store.Ports[i], store.Ports[j])

\* C2: no lost update: a commit of OpenPorts or ClosePorts removes no range
\* that was committed after the writer's last read of the document (a range
\* the document holds and the writer's copy of it does not)
C2_NoLostUpdate ==
    [][\A w \in DOMAIN call :
          Commits(w) =>
             \A x \in Range(store.Ports) \ Range(call[w].ports.Ports) :
                x \in Range(store'.Ports)]_vars

\* the writers that take part in a run of SpecConverge
Active == {w \in DOMAIN call : budget[w] > 0 \/ call[w].op # "none"}

\* C3 as stated: every call of the concurrent writers returns success, none
\* returns the retry-exhausted error
C3_AllOpensSucceed ==
    \A w \in DOMAIN call : Returned(w) => call[w].result = "nil"

\* the commits made so far in a run of SpecConverge, the revision the
\* document had initially and the ranges it held
AppliedTotal(S) == Cardinality({w \in S : call[w].applied = 1})
InitialRevno == store.TxnRevno - AppliedTotal(DOMAIN call)
InitialPorts == IF InitialRevno = StoredOne.TxnRevno THEN StoredOne.Ports ELSE <<>>

\* the handle of w was read from the document as it was when the calls began
\* (OpenPorts leaves the revision of the receiver as it was read)
FreshHandle(w) == handle[w].TxnRevno = InitialRevno

\* C3 amended: with at most nrRetries writers, each with a handle read when
\* the calls begin, every call returns success, and as long as a call has
\* not returned some step of it can be taken
C3_OpensSucceedUpToRetryBound ==
    (Cardinality(Active) <= nrRetries /\ \A w \in Active : FreshHandle(w)) =>
        /\ \A w \in Active : Returned(w) => call[w].result = "nil"
        /\ (\E w \in Active : ~Returned(w)) => ENABLED NextConverge

\* a fourth writer is not needed for the case of C3: three concurrent calls
\* on an existing document, one of them after two aborted attempts, have all
\* returned success
C3_Witness ==
    /\ Cardinality(Active) = nrRetries
    /\ InitialPorts # <<>>
    /\ \A w \in Active : FreshHandle(w) /\ Returned(w) /\ call[w].result = "nil"
    /\ \E w \in Active : Len(call[w].attempts) = nrRetries

\* C4: once all concurrent OpenPorts calls have returned, the stored range
\* list holds each successfully opened range and each initial range exactly
\* once, and nothing else
C4_FinalDocumentIsUnion ==
    (\A w \in Active : Returned(w)) =>
        LET want == Range(InitialPorts)
                    \cup {call[w].portRange : w \in {v \in Active : call[v].result = "nil"}}
        IN /\ Range(store.Ports) = want
           /\ \A r \in want : Count(store.Ports, r) = 1
           /\ store.exists

\* all four writers returned, the document created by one of them, two of
\* them having opened the same range
C4_Witness ==
    /\ Cardinality(Active) > nrRetries
    /\ \A w \in Active : Returned(w)
    /\ InitialPorts = <<>>
    /\ Cardinality({w \in Active : call[w].result = "nil"}) > nrRetries

\* C5: OpenPorts of a range that is in the handle's range list returns
\* success and submits no transaction
C5_IdempotentAdd ==
    \A w \in DOMAIN call :
        (Returned(w) /\ call[w].op = "open" /\ call[w].dup) =>
            call[w].result = "nil" /\ call[w].submitted = 0

\* C6: OpenPorts of a valid range that conflicts with a stored range of
\* another unit, which the handle reflects, returns the conflict error and
\* submits no transaction
C6_ConflictRejected ==
    \A w \in DOMAIN call :
        (Returned(w) /\ call[w].op = "open" /\ call[w].clash
                     /\ Validate(call[w].portRange) = "nil") =>
            call[w].result = "ErrConflict" /\ call[w].submitted = 0

\* C7: the commit of a ClosePorts call that removes the only range the
\* stored document holds deletes the document: a lookup of the key then
\* finds nothing (getOrCreatePorts makes a new document)
C7_LastRangeDeletesDocument ==
    [][\A w \in DOMAIN call :
          (Commits(w) /\ call[w].op = "close"
                      /\ Range(store.Ports) = {call[w].portRange}) =>
             ~store'.exists /\ getOrCreatePorts'.areNew]_vars

\* a ClosePorts call committed and the document is gone
C7_Witness ==
    \E w \in DOMAIN call :
        /\ Returned(w) /\ call[w].op = "close" /\ call[w].applied = 1
        /\ ~store.exists

\* C8: a ports document that exists in the store has a non-empty range list
C8_StoredDocumentNonEmpty == store.exists => Len(store.Ports) > 0

\* the removal of a unit kept the other unit's range, and closing that range
\* then removed the document
C8_Witness ==
    /\ \E u \in Units : unitLife[u] = "removed"
    /\ \E w \in DOMAIN call : Returned(w) /\ call[w].op = "close" /\ call[w].applied = 1
    /\ ~store.exists

\* C9: one call commits at most one operation list, and a call that
\* returned an error committed none
C9_AtMostOneCommit ==
    \A w \in DOMAIN call :
        /\ call[w].applied <= 1
        /\ call[w].applied <= call[w].submitted
        /\ (Returned(w) /\ call[w].result # "nil") => call[w].applied = 0
        /\ (call[w].applied = 1) => Returned(w)

\* a call returned the retry-exhausted error after a commit of an earlier
\* call of the same writer
C9_Witness ==
    \E w \in DOMAIN call :
        /\ Returned(w) /\ call[w].result = "ErrExcessiveContention"
        /\ call[w].submitted = nrRetries /\ call[w].applied = 0
        /\ budget[w] = 0

\* C10: the builder is invoked with the attempt numbers 0, 1, 2, ... at most
\* nrRetries times, and a call whose every attempt was aborted returns the
\* retry-exhausted error
C10_BoundedAttempts ==
    \A w \in DOMAIN call :
        /\ Len(call[w].attempts) <= nrRetries
        /\ \A i \in 1..Len(call[w].attempts) : call[w].attempts[i] = i - 1
        /\ call[w].pc \in {"build", "txn"} => call[w].attempt < nrRetries
        /\ (Returned(w) /\ call[w].submitted = nrRetries /\ call[w].applied = 0)
              => call[w].result = "ErrExcessiveContention"
        /\ (Returned(w) /\ call[w].result = "ErrExcessiveContention")
              => Len(call[w].attempts) = nrRetries /\ call[w].submitted = nrRetries

\* a call returned the retry-exhausted error
C10_Witness ==
    \E w \in DOMAIN call :
        Returned(w) /\ call[w].result = "ErrExcessiveContention"

\* C11: a call of OpenPorts or ClosePorts with a range that fails Validate
\* returns the validation error with the builder never invoked and no
\* operation list submitted or applied
C11_InvalidRangeRejectedEarly ==
    \A w \in DOMAIN call :
        (call[w].op \in {"open", "close"} /\ Validate(call[w].portRange) # "nil") =>
            /\ Returned(w)
            /\ call[w].result = Validate(call[w].portRange)
            /\ call[w].attempts = <<>>
            /\ call[w].submitted = 0 /\ call[w].applied = 0

\* a ClosePorts call with a range out of bounds returned the bounds error
\* while the document exists
C11_Witness ==
    \E w \in DOMAIN call :
        /\ call[w].op = "close" /\ call[w].portRange \in BadRanges
        /\ call[w].result = "ErrBounds"
        /\ store.exists

DocPortsAtBuild(w) == IF call[w].attempt = 0 THEN call[w].ports.Ports ELSE store.Ports

\* C13: ClosePorts of a range that is no member of the document's range list
\* (ports.doc.Ports), while a range of the same unit with the same protocol
\* and overlapping bounds is, returns the conflict error; nothing is
\* submitted and the stored document is unchanged
C13_CloseConflictRejected ==
    [][\A w \in DOMAIN call :
          (/\ RunBuild(w) /\ call[w].op = "close"
           /\ call[w].portRange \notin Range(DocPortsAtBuild(w))
           /\ \E e \in Range(DocPortsAtBuild(w)) :
                 /\ e.UnitName = call[w].portRange.UnitName
                 /\ e.Protocol = call[w].portRange.Protocol
                 /\ Overlap(e, call[w].portRange)) =>
             /\ call'[w].pc = "idle" /\ call'[w].result = "ErrConflict"
             /\ call'[w].submitted = call[w].submitted
             /\ store' = store]_vars

\* ClosePorts(web/0 tcp 80-90) returned the conflict error while the stored
\* document holds web/0 tcp 80-80 and not web/0 tcp 80-90
C13_Witness ==
    \E w \in DOMAIN call :
        /\ Returned(w) /\ call[w].op = "close" /\ call[w].result = "ErrConflict"
        /\ call[w].portRange \in CloseOnlyRanges
        /\ call[w].portRange \notin Range(store.Ports)
        /\ PR("web/0", 80, 80, "tcp") \in Range(store.Ports)
        /\ PR("web/0", 80, 80, "tcp") \in Range(handle[w].Ports)

\* C14: for valid ranges a and b, CheckConflicts(a, b) returns an error
\* exactly when the protocols are equal, the bounds overlap and a and b are
\* not the same tuple; two icmp ranges of different units conflict, ranges of
\* different protocols do not
C14_ConflictRelation ==
    (verdict # NoVerdict /\ verdict.a = "nil" /\ verdict.b = "nil") =>
        /\ verdict.ab # "nil" <=>
              (/\ rangeA.Protocol = rangeB.Protocol
               /\ rangeA.ToPort >= rangeB.FromPort /\ rangeB.ToPort >= rangeA.FromPort
               /\ rangeA # rangeB)
        /\ verdict.ab \in {"nil", "ErrConflict"}
        /\ (rangeA.Protocol = "icmp" /\ rangeB.Protocol = "icmp"
                /\ rangeA.UnitName # rangeB.UnitName) => verdict.ab = "ErrConflict"
        /\ rangeA.Protocol # rangeB.Protocol => verdict.ab = "nil"

\* CheckConflicts reported the conflict of two icmp ranges of different units
C14_Witness ==
    /\ verdict.a = "nil" /\ verdict.b = "nil"
    /\ rangeA.Protocol = "icmp" /\ rangeB.Protocol = "icmp"
    /\ rangeA.UnitName # rangeB.UnitName
    /\ verdict.ab = "ErrConflict"

\* C15: for all ranges a and b, valid or not, CheckConflicts(a, b) returns an
\* error exactly when CheckConflicts(b, a) returns an error
C15_ConflictSymmetric ==
    verdict # NoVerdict => (verdict.ab # "nil" <=> verdict.ba # "nil")

\* both orders reported the conflict of two valid ranges of which the first
\* begins and ends below the second
C15_Witness ==
    /\ verdict.a = "nil" /\ verdict.b = "nil"
    /\ verdict.ab = "ErrConflict" /\ verdict.ba = "ErrConflict"
    /\ rangeA.FromPort < rangeB.FromPort /\ rangeA.ToPort < rangeB.ToPort

\* a well-formed range as the data model states it; the protocol is read
\* without regard to letter case
WellFormed(r) ==
    LET proto == ToLower(r.Protocol) IN
    /\ proto \in {"tcp", "udp", "icmp"}
    /\ IsValidUnit(r.UnitName)
    /\ \/ proto = "icmp" /\ r.FromPort = -1 /\ r.ToPort = -1
       \/ /\ proto \in {"tcp", "udp"}
          /\ 1 <= r.FromPort /\ r.FromPort <= r.ToPort /\ r.ToPort <= 65535

\* C16: Validate accepts a range exactly when it is well-formed, and every
\* range of the stored document is accepted by Validate
C16_ValidateExact ==
    /\ verdict # NoVerdict =>
          /\ verdict.a = "nil" <=> WellFormed(rangeA)
          /\ verdict.b = "nil" <=> WellFormed(rangeB)
    /\ \A i \in 1..Len(store.Ports) : Validate(store.Ports[i]) = "nil"

\* Validate accepted an icmp range, which OpenPorts stored, and rejected a
\* tcp range that ends above 65535
C16_Witness ==
    /\ verdict.a = "nil" /\ rangeA.Protocol = "icmp"
    /\ store.exists /\ rangeA \in Range(store.Ports)
    /\ verdict.b = "ErrBounds" /\ rangeB.ToPort > 65535

\* C17: extractPortsIDParts(key) succeeds exactly when the key is
\* portsGlobalKey(m, s) for a well-formed machine id m, and then returns m
\* and s
C17_KeyParseExact ==
    parts # NoParts =>
        LET shaped == {j \in 3..Len(key) :
                          /\ IsMachineId(SubSeq(key, 3, j - 1))
                          /\ key = portsGlobalKey(SubSeq(key, 3, j - 1),
                                                  SubSeq(key, j + 1, Len(key)))}
        IN /\ parts.err = "nil" <=> shaped # {}
           /\ \A j \in shaped :
                 /\ parts.machine = SubSeq(key, 3, j - 1)
                 /\ parts.subnet = SubSeq(key, j + 1, Len(key))

\* Kill or Stop has been called
KillCalled == env.kills < MaxKills

\* C18 (as amended): the loop never takes the closed Changes channel for a
\* batch: the round of the select that receives from it returns the error
\* "machines watcher closed" and starts no reconciler, the worker is dying
\* with a non-nil error from then on, and once the channel is closed under
\* a running worker Wait eventually returns; what it returns is a non-nil
\* error unless Kill or Stop made the worker dying before the loop received
\* from the channel, in which case the loop left by its dying case
C18_FeedClosureIsFatal ==
    /\ [][(watcher.state # "alive" /\ loopChanges)
            => /\ loopState' = [pc |-> "returned", err |-> "machines watcher closed"]
               /\ tomb'.state # "alive" /\ tomb'.reason # "nil"
               /\ machines' = machines /\ recon' = recon]_vars
    /\ [](loopState.err = "machines watcher closed" => tomb.reason # "nil")
    /\ (watcher.state # "alive" /\ tomb.state = "alive")
          ~> (env.waited # "none"
              /\ (env.waited = "nil" => KillCalled /\ loopState.err = errDying))

\* C18 witness: the loop has returned "machines watcher closed" and Wait has
\* returned that error
C18_Witness ==
    /\ loopState = [pc |-> "returned", err |-> "machines watcher closed"]
    /\ env.waited = "machines watcher closed"

\* C18 as stated: once the Changes channel is closed under a running worker,
\* Wait eventually returns a non-nil error
C18_FeedClosureAlwaysNonNil ==
    (watcher.state # "alive" /\ tomb.state = "alive")
        ~> (env.waited # "none" /\ env.waited # "nil")

\* C19: no task outlives its supervisor: the worker is dead (and Wait has
\* returned) only when every reconciler it started has emitted its
\* completion signal, so that none is still running
C19_NoTaskOutlivesSupervisor ==
    (tomb.state = "dead" \/ env.waited # "none") => \A id \in MachineTags : ~Live(id)

\* C20: once the worker is dying, whatever made it so, every reconciler that
\* is live and waiting on work-or-cancel then eventually observes the
\* cancellation, under fair scheduling; the worker never leaves dying for
\* running again
C20_CancellationReachesReconcilers ==
    /\ \A id \in MachineTags :
          (tomb.state # "alive" /\ recon[id].pc = "running") ~> (recon[id].pc # "running")
    /\ [][tomb.state # "alive" => tomb'.state # "alive"]_vars

\* C20 witness: the worker is dying and a reconciler that has not failed and
\* was not told to stop has observed the cancellation
C20_Witness ==
    /\ tomb.state = "dying"
    /\ env.failures = MaxFailures
    /\ \E id \in MachineTags : recon[id].pc = "stopping" /\ ~recon[id].stop

\* C21: at most one live reconciler per machine identifier: no reconciler
\* is ever started for an identifier while an earlier one of it is live, a
\* live reconciler has a registry entry, and a batch that names a registered
\* identifier leaves its reconciler the only one
C21_OneReconcilerPerMachine ==
    \A id \in MachineTags :
        /\ recon[id].orphans = 0
        /\ Live(id) => id \in machines

\* C21 witness: a second batch has named a machine whose reconciler is
\* running, and it is still the only reconciler of that machine
C21_Witness ==
    \E id \in MachineTags :
        /\ recon[id].named >= 2
        /\ recon[id].pc = "running"
        /\ recon[id].orphans = 0
        /\ id \in machines

\* the step is the loop taking a batch that names id and handing it to
\* startMachines, which returns no error
BatchNames(id) ==
    /\ loopState.pc = "select" /\ loopState' = loopState
    /\ watcher.pending # <<>> /\ id \in watcher.pending[1]
    /\ watcher' = [watcher EXCEPT !.pending = <<>>]

\* C22: the registry entry of an identifier is deleted only by the step in
\* which its reconciler's send on machineDead is received, and that
\* reconciler is complete then; an identifier without an entry is free: the
\* next batch that names it starts a fresh reconciler and registers it
C22_EntryDeletedOnCompletionOnly ==
    /\ [][\A id \in MachineTags :
            (id \in machines /\ id \notin machines')
                => (recon[id].pc = "signalling" /\ recon'[id].pc = "unseen")]_vars
    /\ [][\A id \in MachineTags :
            (id \notin machines /\ BatchNames(id))
                => /\ id \in machines'
                   /\ recon'[id].pc = "running" /\ ~recon'[id].stop
                   /\ recon'[id].named = 1]_vars

\* C22 witness: a reconciler has failed, a failed reconciler runs again only
\* after its entry was deleted, and every machine has a running reconciler
\* and an entry: the entry of the failed one was deleted on its completion
\* signal and a later batch started a fresh reconciler for it
C22_Witness ==
    /\ loopState.pc = "select"
    /\ env.failures < MaxFailures
    /\ \A id \in MachineTags : recon[id].pc = "running" /\ id \in machines

\* the step is the loop taking the batch b and handing it to startMachines,
\* which returns no error
BatchTaken(b) ==
    /\ loopState.pc = "select" /\ loopState' = loopState
    /\ watcher.pending = <<b>>
    /\ watcher' = [watcher EXCEPT !.pending = <<>>]

\* the step is the loop receiving the completion signal of id
SignalObserved(id) ==
    /\ loopState.pc = "select" /\ loopState' = loopState
    /\ recon[id].pc = "signalling" /\ recon'[id].pc = "unseen"

\* C23: the batches are taken one at a time, each as the machine watcher
\* sent it.  Taking a batch starts and registers a reconciler for each of
\* its identifiers without an entry, leaves the reconciler of each of its
\* registered identifiers as it is, and signals each registered identifier
\* it does not name to stop, its entry kept.  The receive of a completion
\* signal tears that reconciler down (no entry, not live) and leaves every
\* other reconciler and entry alone; while the loop runs, a reconciler told
\* to stop is torn down eventually
C23_LifecycleByBatchDiff ==
    /\ [](Len(watcher.pending) <= 1)
    /\ [][\A b \in SUBSET MachineTags : BatchTaken(b) =>
            \A id \in MachineTags :
                /\ (id \in b \ machines)
                      => (id \in machines' /\ recon'[id].pc = "running" /\ ~recon'[id].stop)
                /\ (id \in b \cap machines)
                      => /\ id \in machines'
                         /\ recon'[id].pc = recon[id].pc
                         /\ recon'[id].stop = recon[id].stop
                         /\ recon'[id].orphans = recon[id].orphans
                /\ (id \in machines \ b)
                      => /\ id \in machines'
                         /\ recon'[id].pc = recon[id].pc
                         /\ recon'[id].stop
                /\ (id \notin machines \cup b)
                      => (id \notin machines' /\ recon'[id] = recon[id])]_vars
    /\ [][\A id \in MachineTags : SignalObserved(id) =>
            /\ machines' = machines \ {id}
            /\ ~recon'[id].stop
            /\ \A other \in MachineTags \ {id} : recon'[other] = recon[other]]_vars
    /\ \A id \in MachineTags :
          (recon[id].stop /\ Live(id)) ~> (~Live(id) \/ loopState.pc = "returned")

\* C23 witness: the watcher has sent {1}, {1, 2} and {2} and nothing has
\* failed: machine 1 was named twice and is torn down, the reconciler of
\* machine 2 was named twice and is running, not told to stop
C23_Witness ==
    /\ tomb.state = "alive"
    /\ env.failures = MaxFailures /\ env.batches = MaxBatches - 3
    /\ watcher.pending = <<>>
    /\ machines = {2}
    /\ recon[1].pc = "unseen" /\ recon[1].named = 2
    /\ recon[2].pc = "running" /\ recon[2].named = 2 /\ ~recon[2].stop

\* C24: the catacomb's error is at every moment the first non-nil error that
\* was reported to it, by the loop's return, by a reconciler's KillWithError
\* or by the watcher's failure, and nil while none was; once non-nil it is
\* never replaced, by a Kill with nil or by a later error; Wait returns it
C24_FirstErrorWins ==
    /\ [](tomb.reason = env.firstErr)
    /\ [][tomb.reason # "nil" => tomb'.reason = tomb.reason]_vars
    /\ [][(env.waited = "none" /\ env'.waited # "none")
            => env'.waited = env.firstErr]_vars

\* C24 witness: a reconciler's failure was reported first, the loop then
\* returned another error, Kill or Stop was called, and Wait has returned
\* the reconciler's failure
C24_Witness ==
    /\ env.firstErr = "reconciler failed"
    /\ loopState.err = "machines watcher closed"
    /\ KillCalled
    /\ env.waited = "reconciler failed"

\* the step is the loop receiving a batch from the watcher's channel
BatchReceived ==
    /\ loopState.pc = "select"
    /\ watcher.pending # <<>>
    /\ watcher'.pending = <<>> /\ watcher'.state = watcher.state

\* C25: once the worker is dying the loop receives no batch from the machine
\* watcher and no reconciler is started, also when a batch and the dying
\* signal are ready together
C25_NoNewWorkWhenDying ==
    [][tomb.state # "alive"
         => /\ ~BatchReceived
            /\ \A id \in MachineTags :
                  ~(recon[id].pc # "running" /\ recon'[id].pc = "running")]_vars

\* the step is a reconciler failing and calling KillWithError
ReconcilerFails ==
    \E id \in MachineTags :
        /\ recon[id].pc = "running" /\ recon'[id].pc = "stopping"
        /\ env'.failures = env.failures - 1

\* the step is the loop's return of the error of startMachines
StartMachinesFails ==
    /\ loopState.pc = "select"
    /\ loopState' = [pc |-> "returned", err |-> "startMachines failed"]

\* the errors of a failure
FailureErrs == {"startMachines failed", "reconciler failed"}

\* C26: a failure of startMachines or of a reconciler makes a running
\* worker dying with that error, and leaves a worker that is dying already
\* with a non-nil error; the worker is never running with an error
\* reported; every reconciler still waiting then observes the cancellation,
\* and Wait returns the error the worker is dying with
C26_FailureCollapsesTree ==
    /\ [][ReconcilerFails
            => /\ tomb'.state # "alive" /\ tomb'.reason # "nil"
               /\ tomb.reason = "nil" => tomb'.reason = "reconciler failed"]_vars
    /\ [][StartMachinesFails
            => /\ tomb'.state # "alive" /\ tomb'.reason # "nil"
               /\ tomb.reason = "nil" => tomb'.reason = "startMachines failed"]_vars
    /\ [](env.firstErr # "nil" => tomb.state # "alive")
    /\ \A id \in MachineTags :
          (tomb.reason \in FailureErrs /\ recon[id].pc = "running")
              ~> (recon[id].pc # "running")
    /\ \A e \in FailureErrs :
          (tomb.state = "dying" /\ tomb.reason = e) ~> (env.waited = e)

\* C26 witness: a reconciler has failed, every reconciler has left its wait
\* without a stop signal of its own, and Wait has returned the failure
C26_Witness ==
    /\ env.waited = "reconciler failed"
    /\ env.failures = MaxFailures - 1
    /\ \A id \in MachineTags :
          recon[id].pc \in {"stopping", "signalling"} /\ ~recon[id].stop

\* C27: after Kill or Stop, under fair scheduling, every reconciler emits
\* its completion signal, so that none stays live, and the worker reaches
\* dead and Wait returns
C27_ShutdownTerminates ==
    KillCalled ~> (tomb.state = "dead" /\ env.waited # "none"
                    /\ \A id \in MachineTags : ~Live(id))

Elems(q) == {q[i] : i \in 1..Len(q)}

Returns(w) == call[w].pc # "idle" /\ call'[w].pc = "idle"

\* C31: when OpenPorts returns success for a range that was in the handle's
\* range list when the call began, the handle's list holds the range exactly
\* once afterwards and has not grown, so PortsForUnit reports the range once
C31_DuplicateOpenKeepsListOnce ==
    [][\A w \in DOMAIN call :
          (/\ Returns(w) /\ call[w].op = "open" /\ call[w].dup
           /\ call'[w].result = "nil") =>
             /\ Count(handle'[w].Ports, call[w].portRange) = 1
             /\ Len(handle'[w].Ports) = Len(handle[w].Ports)
             /\ Count(PortsForUnit(handle'[w].Ports, call[w].portRange.UnitName),
                      call[w].portRange) = 1]_vars

\* C32: every commit of OpenPorts, creating the document or updating it,
\* happens while the machine is not dead, the subnet of the document, when
\* it has one, is not dead, and the unit that owns the new range is not dead
C32_OpenCommitsForLiveEntitiesOnly ==
    [][\A w \in DOMAIN call :
          (Commits(w) /\ call[w].op = "open") =>
             /\ NotDead(machineLife)
             /\ (subnetID # "" => NotDead(subnetLife))
             /\ NotDead(unitLife[call[w].portRange.UnitName])]_vars

\* the errors OpenPorts returns on account of the subnet
SubnetErrs == {"ErrSubnetNotAlive", "ErrNotFound"}

\* C33: OpenPorts returns an error on account of the subnet only when the
\* subnet is dead or gone, on attempt 0 and on a retry alike: with a subnet
\* that is alive or dying, which lets the operations of attempt 0 commit,
\* no attempt is rejected for the subnet
C33_SubnetTreatedAlikeOnRetry ==
    [][\A w \in DOMAIN call :
          (Returns(w) /\ call[w].op = "open" /\ call'[w].result \in SubnetErrs)
             => ~NotDead(subnetLife)]_vars

\* the errors a builder of OpenPorts or ClosePorts raises
BuilderErrs ==
    {"ErrModelNotActive", "ErrSubnetNotAlive", "ErrNotFound", "ErrConflict", "ErrStoreRead"}

\* the step is an invocation of the builder of w's call
Builds(w) == call[w].pc = "build" /\ call'[w] # call[w]

\* C34: an error of the builder of OpenPorts or ClosePorts ends the call:
\* a retry attempt that finds the model not active (OpenPorts), the subnet
\* not alive or missing, or the read of the document failing returns that
\* error from that invocation; a call that returns one of the builder's
\* errors returns it from an invocation of the builder, with nothing
\* submitted by that attempt, nothing committed by the call and the stored
\* document unchanged; and the attempt number advances only after an
\* aborted submission
C34_BuilderErrorsNotRetried ==
    /\ [][\A w \in DOMAIN call :
            (Builds(w) /\ call[w].attempt > 0 /\ call[w].op = "open"
                       /\ modelLife # "alive")
               => Returns(w) /\ call'[w].result = "ErrModelNotActive"]_vars
    /\ [][\A w \in DOMAIN call :
            (Builds(w) /\ call[w].attempt > 0 /\ call[w].op \in {"open", "close"}
                       /\ (call[w].op = "open" => modelLife = "alive")
                       /\ subnetID # "" /\ subnetLife # "alive")
               => /\ Returns(w)
                  /\ call'[w].result
                        = IF subnetLife = "removed" THEN "ErrNotFound"
                          ELSE "ErrSubnetNotAlive"]_vars
    /\ [][\A w \in DOMAIN call :
            (RunBuildReadFails(w) /\ call[w].op \in {"open", "close"}
                       /\ (call[w].op = "open" => modelLife = "alive")
                       /\ (subnetID # "" => subnetLife = "alive"))
               => Returns(w) /\ call'[w].result = "ErrStoreRead"]_vars
    /\ [][\A w \in DOMAIN call :
            (Returns(w) /\ call'[w].result \in BuilderErrs)
               => /\ call[w].pc = "build"
                  /\ call'[w].submitted = call[w].submitted
                  /\ call'[w].applied = 0
                  /\ call'[w].attempts = Append(call[w].attempts, call[w].attempt)
                  /\ store' = store]_vars
    /\ [][\A w \in DOMAIN call :
            call'[w].attempt > call[w].attempt
               => /\ call[w].pc = "txn" /\ ~OpsHold(call[w].ops)
                  /\ call'[w].attempt = call[w].attempt + 1
                  /\ store' = store]_vars

\* C34 witness: an OpenPorts call whose first attempt was aborted found the
\* model not active on its retry and returned that error, with one
\* submission, two invocations of the builder and nothing committed
C34_Witness ==
    \E w \in DOMAIN call :
        /\ Returned(w) /\ call[w].op = "open"
        /\ call[w].result = "ErrModelNotActive"
        /\ call[w].attempts = <<0, 1>>
        /\ call[w].submitted = 1 /\ call[w].applied = 0

\* C35: a call of OpenPorts or ClosePorts changes its receiver only when it
\* returns success: from its invocation to its return no step changes the
\* handle of a call in flight, whatever the retries read, and a call that
\* returns an error, that of Validate included, leaves the handle's range
\* list and its areNew flag as they were
C35_ErrorLeavesHandleUnchanged ==
    /\ [][\A w \in DOMAIN call :
            (call[w].pc # "idle" /\ ~(Returns(w) /\ call'[w].result = "nil"))
               => handle'[w] = handle[w]]_vars
    /\ [][\A w \in DOMAIN call :
            (/\ call'[w] # call[w] /\ call'[w].pc = "idle"
             /\ call'[w].op \in {"open", "close"} /\ call'[w].result # "nil")
               => /\ handle'[w].Ports = handle[w].Ports
                  /\ handle'[w].areNew = handle[w].areNew]_vars

\* C35 witness: a ClosePorts call with a handle older than the stored
\* document had its first attempt aborted, read the document again on the
\* retry and returned the subnet error; its handle still differs from the
\* stored document
C35_Witness ==
    \E w \in DOMAIN call :
        /\ Returned(w) /\ call[w].op = "close"
        /\ call[w].result = "ErrSubnetNotAlive"
        /\ call[w].attempts = <<0, 1>>
        /\ handle[w].Ports # <<>>
        /\ handle[w].Ports # store.Ports

\* C36: with one writer, one handle from getOrCreatePorts and nothing else
\* writing, whenever no call is in flight, so after every OpenPorts and
\* ClosePorts that returned, the ranges of the handle's list are the ranges
\* of the stored document, and the list is empty exactly when the document
\* does not exist
C36_HandleMirrorsDocument ==
    \A w \in DOMAIN call :
        call[w].pc = "idle" =>
            /\ Range(handle[w].Ports) = Range(store.Ports)
            /\ handle[w].Ports = <<>> <=> ~store.exists

\* C36 witness: the fourth call, an OpenPorts on a handle whose revision is
\* not that of the stored document, succeeded on its retry
C36_Witness ==
    \E w \in DOMAIN call :
        /\ budget[w] = 0 /\ Returned(w)
        /\ call[w].op = "open" /\ call[w].result = "nil"
        /\ call[w].attempts = <<0, 1>> /\ call[w].applied = 1
        /\ handle[w].TxnRevno # store.TxnRevno
        /\ Len(store.Ports) > 1

\* C37: ClosePorts of a range that is no member of the document's range list
\* (ports.doc.Ports), while no range of the same unit in that list overlaps
\* it, returns success from that invocation of the builder: nothing is
\* submitted and the stored document and its revision are unchanged
C37_CloseOfAbsentRangeIsNoOp ==
    [][\A w \in DOMAIN call :
          (/\ RunBuild(w) /\ call[w].op = "close"
           /\ call[w].portRange \notin Range(DocPortsAtBuild(w))
           /\ ~\E e \in Range(DocPortsAtBuild(w)) :
                 /\ e.UnitName = call[w].portRange.UnitName
                 /\ Overlap(e, call[w].portRange)) =>
             /\ call'[w].pc = "idle" /\ call'[w].result = "nil"
             /\ call'[w].submitted = call[w].submitted
             /\ call'[w].applied = 0
             /\ store' = store]_vars

\* C37 witness: ClosePorts(web/0 tcp 80-90) returned success with nothing
\* submitted, while the document and the handle hold db/0 tcp 80-90, which
\* overlaps it, and no range of web/0
C37_Witness ==
    \E w \in DOMAIN call :
        /\ Returned(w) /\ call[w].op = "close" /\ call[w].result = "nil"
        /\ call[w].portRange \in CloseOnlyRanges
        /\ call[w].submitted = 0
        /\ store.Ports = <<PR("db/0", 80, 90, "tcp")>>
        /\ handle[w].Ports = store.Ports

\* C38: for two ranges that Validate accepts, whose protocols are equal
\* when letter case is ignored, whose bounds overlap and which are not the
\* same tuple, CheckConflicts reports a conflict
C38_ConflictIgnoresProtocolCase ==
    (/\ verdict # NoVerdict /\ verdict.a = "nil" /\ verdict.b = "nil"
     /\ ToLower(rangeA.Protocol) = ToLower(rangeB.Protocol)
     /\ Overlap(rangeA, rangeB)
     /\ rangeA # rangeB) => verdict.ab = "ErrConflict"

\* the step is the return of onConfigChanged from a notification that was
\* delivered without error
ConfigChangeHandled == onChange.pc = "publish" /\ onChange'.pc = "idle"

\* the step is the delivery of a notification with an error
ErrorDelivered ==
    /\ onChange.pc = "idle" /\ hub.pending # <<>> /\ Head(hub.pending).err # "nil"
    /\ onChange'.handled = onChange.handled + 1

\* C39: onConfigChanged, for a notification delivered without error,
\* publishes one restart message, local only, when the old presence flag is
\* in exactly one of the feature set held before and the feature set of the
\* new config, and none otherwise; nothing else publishes; a notification
\* delivered with an error publishes nothing and leaves the held config and
\* feature set as they were
C39_RestartOnPresenceFlip ==
    /\ [][ConfigChangeHandled =>
            hub'.published =
               IF (OldPresence \in onChange.before)
                     # (OldPresence \in Features(onChange.data))
               THEN Append(hub.published, [topic |-> "apiserver.restart",
                                           LocalOnly |-> TRUE])
               ELSE hub.published]_vars
    /\ [][hub'.published # hub.published => ConfigChangeHandled]_vars
    /\ [][ErrorDelivered =>
            /\ sharedCtx' = sharedCtx
            /\ hub'.published = hub.published
            /\ onChange'.pc = "idle"]_vars

\* C39 witness: three notifications were handled; one added the old presence
\* flag and one removed it, each with a restart message
C39_Witness ==
    /\ onChange.pc = "idle" /\ onChange.handled = MaxNotifications
    /\ Len(hub.published) = 2
    /\ OldPresence \notin sharedCtx.features
    /\ DeveloperMode \in sharedCtx.features

\* C40: whenever the mutex is not held for writing, so in every state a
\* reader can observe, the held feature set is the feature set of the held
\* controller config; a reader holds the mutex only then; and featureEnabled
\* called while no notification is being handled returns the membership of
\* the flag in the features of the config applied last (that of the
\* construction when none was)
C40_FeaturesMatchConfig ==
    /\ ~configMutex.writer =>
          sharedCtx.features = Features(sharedCtx.controllerConfig)
    /\ featureReader.pc = "rlocked" => ~configMutex.writer
    /\ (/\ featureReader.pc = "idle" /\ featureReader.op = "featureEnabled"
        /\ featureReader.quiet) =>
          featureReader.result
             = (featureReader.flag \in Features(featureReader.applied))

\* C40 witness: after a notification that added the old presence flag,
\* featureEnabled, called with no notification being handled, returned true
\* for it
C40_Witness ==
    /\ featureReader.pc = "idle" /\ featureReader.op = "featureEnabled"
    /\ featureReader.quiet /\ featureReader.flag = OldPresence
    /\ featureReader.result = TRUE
    /\ onChange.handled = 1 /\ Len(hub.published) = 1

=============================================================================
